---- MODULE Spec2Model ----
(***************************************************************************)
(* The pub/sub notification engine of rpc/src/rpc_subscriptions.rs: the    *)
(* ingest channel, the dispatcher worker (process_notifications), the      *)
(* commitment resolution and the per-kind filters                          *)
(* (check_commitment_and_notify, filter_*_result), the notifier with its   *)
(* recent-items buffer, and the collaborators the worker reads or is       *)
(* driven by (bank forks, the subscription tracker and control, the        *)
(* transports).                                                            *)
(***************************************************************************)
EXTENDS Integers, Sequences, FiniteSets, TLC

(***************************************************************************)
(* Bounds of the model.                                                    *)
(***************************************************************************)
\* Slots are 0..MaxSlot.
MaxSlot == 1
\* The ingest channel holds at most MaxQueue entries not yet received.
MaxQueue == 1
\* At most MaxSubscriptions subscription ids are ever allocated.
MaxSubscriptions == 2
\* PubSubConfig.queue_capacity_items and queue_capacity_bytes.
QueueCapacityItems == 1
QueueCapacityBytes == 4
\* PubSubConfig.max_active_subscriptions
MaxActiveSubscriptions == 2

Slots == 0..MaxSlot
SubscriptionIds == 0..(MaxSubscriptions - 1)

(***************************************************************************)
(* Option<T>: None is the empty sequence, Some(x) the one-element one.     *)
(***************************************************************************)
None == <<>>
Some(x) == <<x>>
IsSome(o) == o # <<>>
Unwrap(o) == o[1]

Range(s) == {s[i] : i \in 1..Len(s)}

RECURSIVE Flatten(_)
Flatten(ss) == IF ss = <<>> THEN <<>> ELSE Head(ss) \o Flatten(Tail(ss))

\* The orders in which a HashMap may yield the keys of S.
Orders(S) ==
    {o \in [1..Cardinality(S) -> S] : \A i, j \in 1..Cardinality(S) : o[i] = o[j] => i = j}

(***************************************************************************)
(* Ledger values.                                                          *)
(***************************************************************************)
Pubkeys == {"alice"}
Programs == {"Stake"}
Signatures == {"sig1", "sig2"}

\* AccountSharedData::default()
DefaultAccount == [lamports |-> 0, data |-> <<>>, owner |-> "System"]
AliceAccount == [lamports |-> 1, data |-> <<>>, owner |-> "System"]
StakeAccount == [lamports |-> 1, data |-> <<0, 0>>, owner |-> "Stake"]

\* TransactionLogInfo, with the addresses the bank indexes it under.
TransferLog ==
    [signature |-> "sig1", result |-> "Ok", is_vote |-> FALSE,
     log_messages |-> <<"transfer">>, mentioned |-> {"alice"}]
VoteLog ==
    [signature |-> "sig2", result |-> "Ok", is_vote |-> TRUE,
     log_messages |-> <<"vote">>, mentioned |-> {}]

\* A bank with nothing in it.
EmptyBank ==
    [accounts |-> [k \in Pubkeys |-> None],
     signature_status |-> [s \in Signatures |-> None],
     program_accounts |-> [p \in Programs |-> <<>>],
     transaction_logs |-> None]

(***************************************************************************)
(* The Bank queries the engine makes.                                      *)
(***************************************************************************)
get_account_modified_slot(bank, pubkey) == bank.accounts[pubkey]

get_program_accounts_modified_since_parent(bank, program) == bank.program_accounts[program]

get_signature_status_processed_since_parent(bank, signature) == bank.signature_status[signature]

\* Bank::get_transaction_logs(Option<&Pubkey>): every log of the bank, or those that
\* mention the address.
bank_get_transaction_logs(bank, address) ==
    IF ~IsSome(bank.transaction_logs) \/ ~IsSome(address)
    THEN bank.transaction_logs
    ELSE Some(SelectSeq(Unwrap(bank.transaction_logs),
                        LAMBDA log : Unwrap(address) \in log.mentioned))

(***************************************************************************)
(* Subscription parameters.                                                *)
(***************************************************************************)
AccountSubscriptionParams(pubkey, commitment, encoding) ==
    [kind |-> "Account", pubkey |-> pubkey, commitment |-> commitment, encoding |-> encoding]

ProgramSubscriptionParams(pubkey, filters, commitment, encoding) ==
    [kind |-> "Program", pubkey |-> pubkey, filters |-> filters,
     commitment |-> commitment, encoding |-> encoding]

LogsSubscriptionParams(kind, commitment) ==
    [kind |-> "Logs", logs_kind |-> kind, commitment |-> commitment]

SignatureSubscriptionParams(signature, commitment, enable_received_notification) ==
    [kind |-> "Signature", signature |-> signature, commitment |-> commitment,
     enable_received_notification |-> enable_received_notification]

\* SubscriptionParams::Slot, SlotsUpdates, Root and Vote
SlotParams == [kind |-> "Slot"]
SlotsUpdatesParams == [kind |-> "SlotsUpdates"]
RootParams == [kind |-> "Root"]
VoteParams == [kind |-> "Vote"]

CommitmentKinds == {"Account", "Program", "Logs", "Signature"}

\* SubscriptionInfo::method
Method(params) ==
    CASE params.kind = "Account" -> "accountNotification"
      [] params.kind = "Program" -> "programNotification"
      [] params.kind = "Logs" -> "logsNotification"
      [] params.kind = "Signature" -> "signatureNotification"
      [] params.kind = "Slot" -> "slotNotification"
      [] params.kind = "SlotsUpdates" -> "slotsUpdatesNotification"
      [] params.kind = "Root" -> "rootNotification"
      [] params.kind = "Vote" -> "voteNotification"

\* SubscriptionInfo::commitment: None for the node-progress kinds.
Commitment(params) ==
    IF params.kind \in CommitmentKinds THEN Some(params.commitment) ELSE None

LogsAll == [tag |-> "All"]
LogsAllWithVotes == [tag |-> "AllWithVotes"]
LogsSingle(pubkey) == [tag |-> "Single", pubkey |-> pubkey]

DataSize(size) == [tag |-> "DataSize", size |-> size]
Memcmp(offset, bytes) == [tag |-> "Memcmp", offset |-> offset, bytes |-> bytes]

VARIABLES
    bank_forks,      \* BankForks: slot -> Option<Bank>
    subscriptions,   \* SubscriptionsTracker.by_id: id -> [params, last_notified_slot, refcount]
    control,         \* SubscriptionControl: params -> [id, count] of the subscribed parameters
    next_id,         \* SubscriptionControl's id counter
    queue,           \* the ingest channel: NotificationEntry values not yet received
    recent_items,    \* RecentItems.queue, each payload by its byte length; the whole
                     \* struct, total_bytes included, under SpecRecentItemsCounted
    pending_final,   \* ids whose is_final message a transport has yet to handle
    finals,          \* history: id -> the is_final messages sent for it: 0, 1, or 2 for more
    released,        \* history: the ids a client unsubscribed from
    config,          \* PubSubConfig, fixed at construction
    exit,            \* the exit flag, shared with whoever stops the node
    t_cleanup,       \* RpcSubscriptions.t_cleanup, the worker's join handle until shutdown
                     \* takes it, and whether shutdown is waiting in join
    worker,          \* where the worker thread is: in recv_timeout past the exit check, or exited
    broadcast,       \* the broadcast channel: receiver -> the messages it has yet to receive
    calls,           \* producer -> the entries its call in progress has yet to enqueue
    trace,           \* history: what each producer enqueued and what the worker handled
    run,             \* history: the entry of the worker's latest step and the ids notified,
                     \* and those notified with no receiver on the broadcast channel,
                     \* while it was handled repeatedly; None once the ledger changed or
                     \* anything but a commitment entry was enqueued
    step             \* history: what the worker's latest step did, or what the control
                     \* replied to the latest request; NoStep after any other step

vars == <<bank_forks, subscriptions, control, next_id, queue, recent_items,
          pending_final, finals, released, config, exit, t_cleanup, worker, broadcast,
          calls, trace, run, step>>

(***************************************************************************)
(* RecentItems and RpcNotifier.                                            *)
(***************************************************************************)
RECURSIVE Sum(_)
Sum(s) == IF s = <<>> THEN 0 ELSE Head(s) + Sum(Tail(s))

\* The eviction loop were it to test the count alone.
RECURSIVE Evict_count_only(_, _, _)
Evict_count_only(items, max_len, max_total_bytes) ==
    IF Len(items) > max_len
    THEN Evict_count_only(Tail(items), max_len, max_total_bytes)
    ELSE items

\* The eviction loop were it to empty the queue once a cap is passed.
Evict_clearing(items, max_len, max_total_bytes) ==
    IF Sum(items) > max_total_bytes \/ Len(items) > max_len
    THEN <<>>
    ELSE items

\* The eviction loop of RecentItems::push.
RECURSIVE Evict(_, _, _)
Evict(items, max_len, max_total_bytes) ==
    IF Sum(items) > max_total_bytes \/ Len(items) > max_len
    THEN Evict(Tail(items), max_len, max_total_bytes)
    ELSE items

RecentItemsPush(items, item_len) ==
    Evict(Append(items, item_len), config.queue_capacity_items, config.queue_capacity_bytes)

RECURSIVE PushAll(_, _)
PushAll(items, lens) ==
    IF lens = <<>> THEN items
    ELSE PushAll(RecentItemsPush(items, Head(lens)), Tail(lens))

\* Response { context: RpcResponseContext { slot }, value }
Response(slot, value) == [context |-> [slot |-> slot], value |-> value]

\* The byte length of the serialized Notification, in units: the envelope, and the
\* context wrapper of a Response.
JsonLen(json) ==
    IF json.method \in {"accountNotification", "programNotification", "logsNotification",
                        "signatureNotification"}
    THEN 2 ELSE 1

\* RpcNotifier::notify: the message sent on the broadcast channel, with the payload
\* its weak handle points to.
Notify(value, id, subscription, is_final) ==
    [subscription_id |-> id,
     is_final |-> is_final,
     json |-> [jsonrpc |-> "2.0",
               method |-> Method(subscription.params),
               params |-> [result |-> value, subscription |-> id]]]

(***************************************************************************)
(* The per-kind queries and filters.                                       *)
(***************************************************************************)
\* get_transaction_logs were it to leave the vote transactions out for every kind.
get_transaction_logs_without_votes(bank, params) ==
    LET pubkey == IF params.logs_kind.tag = "Single"
                  THEN Some(params.logs_kind.pubkey)
                  ELSE None
        logs == bank_get_transaction_logs(bank, pubkey)
    IN  IF IsSome(logs)
        THEN Some(SelectSeq(Unwrap(logs), LAMBDA log : ~log.is_vote))
        ELSE logs

get_transaction_logs(bank, params) ==
    LET pubkey == IF params.logs_kind.tag = "Single"
                  THEN Some(params.logs_kind.pubkey)
                  ELSE None
        logs == bank_get_transaction_logs(bank, pubkey)
    IN  IF params.logs_kind.tag = "All" /\ IsSome(logs)
        THEN Some(SelectSeq(Unwrap(logs), LAMBDA log : ~log.is_vote))
        ELSE logs

\* UiAccount::encode
UiAccountEncode(account, encoding) ==
    [lamports |-> account.lamports, data |-> <<account.data, encoding>>,
     owner |-> account.owner, executable |-> FALSE, rentEpoch |-> 0]

\* parsed_token_accounts::get_parsed_token_account
get_parsed_token_account(account) ==
    [lamports |-> account.lamports, data |-> <<account.data, "parsed">>,
     owner |-> account.owner, executable |-> FALSE, rentEpoch |-> 0]

\* filter_account_result were it to suppress with `<=` in place of the equality test:
\* a fork revert would go unreported.
filter_account_result_only_newer(result, params, last_notified_slot, bank) ==
    LET found == IF IsSome(result) THEN Unwrap(result)
                 ELSE [account |-> DefaultAccount, slot |-> 0]
    IN  [results |->
            IF found.slot > last_notified_slot
            THEN <<UiAccountEncode(found.account, params.encoding)>>
            ELSE <<>>,
         slot |-> found.slot]

\* filter_account_result were it to report nothing for an account the bank lacks.
filter_account_result_only_present(result, params, last_notified_slot, bank) ==
    IF IsSome(result)
    THEN [results |->
            IF Unwrap(result).slot # last_notified_slot
            THEN <<UiAccountEncode(Unwrap(result).account, params.encoding)>>
            ELSE <<>>,
          slot |-> Unwrap(result).slot]
    ELSE [results |-> <<>>, slot |-> last_notified_slot]

\* filter_account_result were it to report an account the bank lacks every time.
filter_account_result_absent_every_time(result, params, last_notified_slot, bank) ==
    IF IsSome(result)
    THEN [results |->
            IF Unwrap(result).slot # last_notified_slot
            THEN <<UiAccountEncode(Unwrap(result).account, params.encoding)>>
            ELSE <<>>,
          slot |-> Unwrap(result).slot]
    ELSE [results |-> <<UiAccountEncode(DefaultAccount, params.encoding)>>, slot |-> 0]

\* filter_account_result were it to report the account whatever slot was last notified.
filter_account_result_always(result, params, last_notified_slot, bank) ==
    LET found == IF IsSome(result) THEN Unwrap(result)
                 ELSE [account |-> DefaultAccount, slot |-> 0]
    IN  [results |-> <<UiAccountEncode(found.account, params.encoding)>>,
         slot |-> found.slot]

filter_account_result(result, params, last_notified_slot, bank) ==
    LET found == IF IsSome(result) THEN Unwrap(result)
                 ELSE [account |-> DefaultAccount, slot |-> 0]
        account == found.account
        last_modified_slot == found.slot
    IN  [results |->
            IF last_modified_slot # last_notified_slot
            THEN IF account.owner = "Token" /\ params.encoding = "JsonParsed"
                 THEN <<get_parsed_token_account(account)>>
                 ELSE <<UiAccountEncode(account, params.encoding)>>
            ELSE <<>>,
         slot |-> last_modified_slot]

\* filter_signature_result were it to report a signature without a status as failed.
filter_signature_result_unknown_as_err(result, params, last_notified_slot, bank) ==
    [results |->
        <<[tag |-> "ProcessedSignature",
           err |-> IF IsSome(result) /\ Unwrap(result) = "Ok" THEN None
                   ELSE Some("Unknown")]>>,
     slot |-> last_notified_slot]

filter_signature_result(result, params, last_notified_slot, bank) ==
    [results |->
        IF IsSome(result)
        THEN <<[tag |-> "ProcessedSignature",
                err |-> IF Unwrap(result) = "Ok" THEN None ELSE Some(Unwrap(result))]>>
        ELSE <<>>,
     slot |-> last_notified_slot]

\* Memcmp::bytes_match
BytesMatch(compare, data) ==
    /\ compare.offset <= Len(data)
    /\ Len(data) - compare.offset >= Len(compare.bytes)
    /\ \A i \in 1..Len(compare.bytes) : data[compare.offset + i] = compare.bytes[i]

FilterMatches(filter_type, account) ==
    IF filter_type.tag = "DataSize"
    THEN Len(account.data) = filter_type.size
    ELSE BytesMatch(filter_type, account.data)

\* filter_program_results were one matching filter enough to keep an account.
filter_program_results_any_filter(accounts, params, last_notified_slot, bank) ==
    LET keyed_accounts ==
            SelectSeq(accounts,
                      LAMBDA keyed : \E i \in 1..Len(params.filters) :
                                        FilterMatches(params.filters[i], keyed.account))
    IN  [results |->
            [i \in 1..Len(keyed_accounts) |->
                [pubkey |-> keyed_accounts[i].pubkey,
                 account |-> UiAccountEncode(keyed_accounts[i].account, params.encoding)]],
         slot |-> last_notified_slot]

filter_program_results(accounts, params, last_notified_slot, bank) ==
    LET keyed_accounts ==
            SelectSeq(accounts,
                      LAMBDA keyed : \A i \in 1..Len(params.filters) :
                                        FilterMatches(params.filters[i], keyed.account))
    IN  [results |->
            IF params.pubkey = "Token" /\ params.encoding = "JsonParsed" /\ accounts # <<>>
            THEN [i \in 1..Len(keyed_accounts) |->
                    [pubkey |-> keyed_accounts[i].pubkey,
                     account |-> get_parsed_token_account(keyed_accounts[i].account)]]
            ELSE [i \in 1..Len(keyed_accounts) |->
                    [pubkey |-> keyed_accounts[i].pubkey,
                     account |-> UiAccountEncode(keyed_accounts[i].account, params.encoding)]],
         slot |-> last_notified_slot]

filter_logs_results(logs, params, last_notified_slot, bank) ==
    IF ~IsSome(logs)
    THEN [results |-> <<>>, slot |-> last_notified_slot]
    ELSE [results |->
            [i \in 1..Len(Unwrap(logs)) |->
                [signature |-> Unwrap(logs)[i].signature,
                 err |-> IF Unwrap(logs)[i].result = "Ok" THEN None
                         ELSE Some(Unwrap(logs)[i].result),
                 logs |-> Unwrap(logs)[i].log_messages]],
          slot |-> last_notified_slot]

(***************************************************************************)
(* check_commitment_and_notify                                             *)
(***************************************************************************)
\* The resolution were confirmed subscriptions to read the root.
CommitmentSlot_confirmed_at_root(commitment, commitment_slots) ==
    IF commitment = "processed" THEN commitment_slots.slot
    ELSE commitment_slots.highest_confirmed_root

\* The slot a commitment level reads from a CommitmentSlots.
CommitmentSlot(commitment, commitment_slots) ==
    IF commitment = "finalized" THEN commitment_slots.highest_confirmed_root
    ELSE IF commitment = "confirmed" THEN commitment_slots.highest_confirmed_slot
    ELSE commitment_slots.slot

\* The result of the bank query of the subscription's kind.
BankMethod(bank, params) ==
    CASE params.kind = "Account" -> get_account_modified_slot(bank, params.pubkey)
      [] params.kind = "Logs" -> get_transaction_logs(bank, params)
      [] params.kind = "Program" ->
            get_program_accounts_modified_since_parent(bank, params.pubkey)
      [] params.kind = "Signature" ->
            get_signature_status_processed_since_parent(bank, params.signature)

FilterResults(results, params, last_notified_slot, bank) ==
    CASE params.kind = "Account" ->
            filter_account_result(results, params, last_notified_slot, bank)
      [] params.kind = "Logs" ->
            filter_logs_results(results, params, last_notified_slot, bank)
      [] params.kind = "Program" ->
            filter_program_results(results, params, last_notified_slot, bank)
      [] params.kind = "Signature" ->
            filter_signature_result(results, params, last_notified_slot, bank)

\* is_final were notify_accounts_logs_programs_signatures never to set it.
IsFinal_never(params) == FALSE

\* is_final were it set for every kind.
IsFinal_always(params) == TRUE

\* is_final as notify_accounts_logs_programs_signatures passes it.
IsFinal(params) == params.kind = "Signature"

\* check_commitment_and_notify were it to evaluate a subscription whose bank is
\* missing as if the bank held nothing for it.
check_commitment_and_notify_default_bank(id, subscription, forks, commitment_slots, is_final) ==
    LET params == subscription.params
        slot == CommitmentSlot(params.commitment, commitment_slots)
        bank == IF IsSome(forks[slot]) THEN Unwrap(forks[slot]) ELSE EmptyBank
        filtered == FilterResults(BankMethod(bank, params), params,
                                  subscription.last_notified_slot, bank)
    IN  [sent |-> [i \in 1..Len(filtered.results) |->
                    Notify(Response(slot, filtered.results[i]), id, subscription, is_final)],
         last_notified_slot |->
            IF filtered.results # <<>> THEN filtered.slot
            ELSE subscription.last_notified_slot,
         notified |-> filtered.results # <<>>]

\* check_commitment_and_notify were it never to write last_notified_slot.
check_commitment_and_notify_no_write(id, subscription, forks, commitment_slots, is_final) ==
    LET params == subscription.params
        slot == CommitmentSlot(params.commitment, commitment_slots)
    IN  IF ~IsSome(forks[slot])
        THEN [sent |-> <<>>, last_notified_slot |-> subscription.last_notified_slot,
              notified |-> FALSE]
        ELSE
        LET bank == Unwrap(forks[slot])
            filtered == FilterResults(BankMethod(bank, params), params,
                                      subscription.last_notified_slot, bank)
        IN  [sent |-> [i \in 1..Len(filtered.results) |->
                        Notify(Response(slot, filtered.results[i]),
                               id, subscription, is_final)],
             last_notified_slot |-> subscription.last_notified_slot,
             notified |-> filtered.results # <<>>]

\* What one call sends, and the last_notified_slot it leaves.
check_commitment_and_notify(id, subscription, forks, commitment_slots, is_final) ==
    LET params == subscription.params
        commitment == Commitment(params)
        skipped == [sent |-> <<>>,
                    last_notified_slot |-> subscription.last_notified_slot,
                    notified |-> FALSE]
    IN  IF ~IsSome(commitment) THEN skipped
        ELSE
        LET slot == CommitmentSlot(Unwrap(commitment), commitment_slots)
        IN  IF ~IsSome(forks[slot]) THEN skipped
            ELSE
            LET bank == Unwrap(forks[slot])
                results == BankMethod(bank, params)
                filtered == FilterResults(results, params,
                                          subscription.last_notified_slot, bank)
            IN  [sent |-> [i \in 1..Len(filtered.results) |->
                            Notify(Response(slot, filtered.results[i]),
                                   id, subscription, is_final)],
                 last_notified_slot |->
                    IF filtered.results # <<>> THEN filtered.slot
                    ELSE subscription.last_notified_slot,
                 notified |-> filtered.results # <<>>]


(***************************************************************************)
(* SubscriptionsTracker: the registry the worker owns.                     *)
(***************************************************************************)
Located(subs, params) == {id \in DOMAIN subs : subs[id].params = params}

TrackerSubscribe(subs, params, id, last_notified_slot) ==
    IF Located(subs, params) # {}
    THEN [i \in DOMAIN subs |->
            IF subs[i].params = params
            THEN [subs[i] EXCEPT !.refcount = @ + 1]
            ELSE subs[i]]
    ELSE [i \in DOMAIN subs \cup {id} |->
            IF i = id
            THEN [params |-> params, last_notified_slot |-> last_notified_slot,
                  refcount |-> 1]
            ELSE subs[i]]

TrackerUnsubscribe(subs, params, id) ==
    LET gone == {i \in Located(subs, params) : subs[i].refcount = 1}
    IN  [i \in DOMAIN subs \ gone |->
            IF subs[i].params = params
            THEN [subs[i] EXCEPT !.refcount = @ - 1]
            ELSE subs[i]]

\* The commitment watchers were every subscription added to them.
commitment_watchers_every_kind(subs) == DOMAIN subs

commitment_watchers(subs) == {id \in DOMAIN subs : subs[id].params.kind \in CommitmentKinds}

gossip_watchers(subs) ==
    {id \in commitment_watchers(subs) : subs[id].params.commitment = "confirmed"}

\* node_progress_watchers().get(params): the subscription of a singleton kind, if any.
node_progress_watchers(subs, params) == {id \in DOMAIN subs : subs[id].params = params}

by_signature(subs, signature) ==
    {id \in DOMAIN subs : /\ subs[id].params.kind = "Signature"
                          /\ subs[id].params.signature = signature}

\* initial_last_notified_slot were it to give every kind the slot of its commitment.
initial_last_notified_slot_any_kind(params, forks, cache_slot, cache_root, confirmed_slot) ==
    IF params.kind \in CommitmentKinds
    THEN IF params.commitment = "finalized" THEN cache_root
         ELSE IF params.commitment = "confirmed" THEN confirmed_slot
         ELSE cache_slot
    ELSE cache_slot

\* initial_last_notified_slot were it to read the slot of the commitment cache
\* whatever the commitment.
initial_last_notified_slot_cache_slot(params, forks, cache_slot, cache_root, confirmed_slot) ==
    IF params.kind = "Account"
    THEN LET found == IF IsSome(forks[cache_slot])
                      THEN get_account_modified_slot(Unwrap(forks[cache_slot]), params.pubkey)
                      ELSE None
         IN  IF IsSome(found) THEN Unwrap(found).slot ELSE 0
    ELSE 0

(***************************************************************************)
(* initial_last_notified_slot, with the values it reads from the block     *)
(* commitment cache and the optimistically confirmed bank.                 *)
(***************************************************************************)
initial_last_notified_slot(params, forks, cache_slot, cache_root, confirmed_slot) ==
    IF params.kind = "Account"
    THEN LET slot == IF params.commitment = "finalized" THEN cache_root
                     ELSE IF params.commitment = "confirmed" THEN confirmed_slot
                     ELSE cache_slot
             found == IF IsSome(forks[slot])
                      THEN get_account_modified_slot(Unwrap(forks[slot]), params.pubkey)
                      ELSE None
         IN  IF IsSome(found) THEN Unwrap(found).slot ELSE 0
    ELSE 0

(***************************************************************************)
(* NotificationEntry                                                       *)
(***************************************************************************)
Slot(slot_info) == [type |-> "Slot", slot_info |-> slot_info]
SlotUpdate(slot_update) == [type |-> "SlotUpdate", slot_update |-> slot_update]
Vote(vote) == [type |-> "Vote", vote |-> vote]
Root(root) == [type |-> "Root", root |-> root]
Subscribed(params, id) == [type |-> "Subscribed", params |-> params, id |-> id]
Unsubscribed(params, id) == [type |-> "Unsubscribed", params |-> params, id |-> id]
Bank(commitment_slots) == [type |-> "Bank", commitment_slots |-> commitment_slots]
Gossip(slot) == [type |-> "Gossip", slot |-> slot]
SignaturesReceived(slot, signatures) ==
    [type |-> "SignaturesReceived", slot |-> slot, signatures |-> signatures]

CommitmentSlots(slot, highest_confirmed_slot, highest_confirmed_root) ==
    [slot |-> slot, highest_confirmed_slot |-> highest_confirmed_slot,
     highest_confirmed_root |-> highest_confirmed_root]

\* The CommitmentSlots of a Gossip entry were its slot put in the slot field.
GossipCommitmentSlots_in_slot_field(slot) == CommitmentSlots(slot, 0, 0)

SlotInfo(slot, parent, root) == [slot |-> slot, parent |-> parent, root |-> root]

\* SlotUpdate::CreatedBank and SlotUpdate::Root
CreatedBank(slot, parent, timestamp) ==
    [tag |-> "createdBank", slot |-> slot, parent |-> parent, timestamp |-> timestamp]
RootUpdate(slot, timestamp) == [tag |-> "root", slot |-> slot, timestamp |-> timestamp]

\* RpcVote: the vote with its hash base58 encoded.
RpcVote(vote) ==
    [slots |-> vote.slots, hash |-> [bs58 |-> vote.hash], timestamp |-> vote.timestamp]

\* CommitmentSlots { highest_confirmed_slot: slot, ..CommitmentSlots::default() }
GossipCommitmentSlots(slot) == CommitmentSlots(0, slot, 0)

NoStep == [entry |-> None, notifications |-> <<>>, before |-> <<>>, run |-> None,
           reply |-> None, read |-> None]

(***************************************************************************)
(* The ledger: banks are inserted, process transactions and are pruned     *)
(* while the engine runs.                                                  *)
(***************************************************************************)
LedgerChange(slot, bank) ==
    /\ bank_forks[slot] # bank
    /\ bank_forks' = [bank_forks EXCEPT ![slot] = bank]
    /\ run' = None
    /\ step' = NoStep
    /\ UNCHANGED <<subscriptions, control, next_id, queue, recent_items, pending_final,
                   finals, released, config, exit, t_cleanup, worker, broadcast, calls, trace>>

(***************************************************************************)
(* The control surface: producers and clients enqueue entries.             *)
(***************************************************************************)
\* The channel were it to hand the newest entry out first.
ChannelSend_newest_first(notification_entry, room) ==
    IF worker = "exited"
    THEN queue' = queue
    ELSE /\ Len(queue) < room
         /\ queue' = <<notification_entry>> \o queue

\* The channel were it to take entries with its receiver gone.
ChannelSend_without_receiver(notification_entry, room) ==
    /\ Len(queue) < room
    /\ queue' = Append(queue, notification_entry)

\* notification_sender.send, while the channel holds fewer than `room` entries: the
\* entry is dropped once the worker exited and its receiver is gone.
ChannelSend(notification_entry, room) ==
    IF worker = "exited"
    THEN queue' = queue
    ELSE /\ Len(queue) < room
         /\ queue' = Append(queue, notification_entry)

\* What enqueue_notification logged: nothing, or the warning that the entry was
\* dropped for the receiver being gone.
Enqueued(notification_entry) ==
    IF worker = "exited"
    THEN [NoStep EXCEPT !.reply =
            Some([request |-> "enqueue_notification", params |-> notification_entry,
                  result |-> "Dropped RPC Notification - receiver disconnected",
                  before |-> queue])]
    ELSE NoStep

\* The producers hold the RpcSubscriptions, which shuts down when it is dropped.
enqueue_notification(notification_entry) ==
    /\ IsSome(t_cleanup.handle)
    /\ ChannelSend(notification_entry, MaxQueue)
    /\ step' = Enqueued(notification_entry)

notify_subscribers(commitment_slots) ==
    /\ enqueue_notification(Bank(commitment_slots))
    /\ UNCHANGED <<bank_forks, subscriptions, control, next_id, recent_items,
                   pending_final, finals, released, config, exit, t_cleanup, worker, broadcast, calls, trace, run>>

notify_gossip_subscribers(slot) ==
    /\ enqueue_notification(Gossip(slot))
    /\ UNCHANGED <<bank_forks, subscriptions, control, next_id, recent_items,
                   pending_final, finals, released, config, exit, t_cleanup, worker, broadcast, calls, trace, run>>

notify_signatures_received(slot, signatures) ==
    /\ enqueue_notification(SignaturesReceived(slot, signatures))
    /\ run' = None
    /\ UNCHANGED <<bank_forks, subscriptions, control, next_id, recent_items,
                   pending_final, finals, released, config, exit, t_cleanup, worker, broadcast, calls, trace>>

\* The holders of a subscription beyond its first.
RECURSIVE ExtraHolders(_, _)
ExtraHolders(ctl, keys) ==
    IF keys = {} THEN 0
    ELSE LET k == CHOOSE k \in keys : TRUE
         IN  (ctl[k].count - 1) + ExtraHolders(ctl, keys \ {k})

\* SubscriptionControl::total
total(ctl) == Cardinality(DOMAIN ctl)

\* What the control replied to a request, with the control as the request found it.
Replied(request, params, result) ==
    [NoStep EXCEPT !.reply = Some([request |-> request, params |-> params,
                                   result |-> result, before |-> control])]

\* The id were it the lowest that no params hold.
fresh_id_lowest_free ==
    CHOOSE i \in 0..next_id :
        /\ \A p \in DOMAIN control : control[p].id # i
        /\ \A j \in 0..(i - 1) : \E p \in DOMAIN control : control[p].id = j

\* The id the control gives to new params: a counter that only grows.
fresh_id == next_id

\* The model has an id and a holder left to give out.
HasRoom == next_id + ExtraHolders(control, DOMAIN control) < MaxSubscriptions

\* subscribe were it to accept new params whatever the count.
ControlSubscribe_uncapped(params) ==
    /\ IF params \in DOMAIN control
       THEN /\ HasRoom
            /\ control' = [control EXCEPT ![params].count = @ + 1]
            /\ next_id' = next_id
            /\ ChannelSend(Subscribed(params, control[params].id), MaxQueue)
            /\ step' = Replied("subscribe", params, "Ok")
       ELSE IF FALSE
            THEN /\ step' = Replied("subscribe", params, "CapacityExceeded")
                 /\ UNCHANGED <<control, next_id, queue>>
            ELSE /\ HasRoom
                 /\ control' = [p \in DOMAIN control \cup {params} |->
                                    IF p = params THEN [id |-> fresh_id, count |-> 1]
                                    ELSE control[p]]
                 /\ next_id' = next_id + 1
                 /\ ChannelSend(Subscribed(params, fresh_id), MaxQueue)
                 /\ step' = Replied("subscribe", params, "Ok")
    /\ run' = None
    /\ UNCHANGED <<bank_forks, subscriptions, recent_items, pending_final, finals, released,
                   config, exit, t_cleanup, worker, broadcast, calls, trace>>

\* subscribe were it to hold the number of holders against the maximum.
ControlSubscribe_counting_holders(params) ==
    /\ IF params \in DOMAIN control
       THEN /\ HasRoom
            /\ control' = [control EXCEPT ![params].count = @ + 1]
            /\ next_id' = next_id
            /\ ChannelSend(Subscribed(params, control[params].id), MaxQueue)
            /\ step' = Replied("subscribe", params, "Ok")
       ELSE IF total(control) + ExtraHolders(control, DOMAIN control)
                    >= config.max_active_subscriptions
            THEN /\ step' = Replied("subscribe", params, "CapacityExceeded")
                 /\ UNCHANGED <<control, next_id, queue>>
            ELSE /\ HasRoom
                 /\ control' = [p \in DOMAIN control \cup {params} |->
                                    IF p = params THEN [id |-> fresh_id, count |-> 1]
                                    ELSE control[p]]
                 /\ next_id' = next_id + 1
                 /\ ChannelSend(Subscribed(params, fresh_id), MaxQueue)
                 /\ step' = Replied("subscribe", params, "Ok")
    /\ run' = None
    /\ UNCHANGED <<bank_forks, subscriptions, recent_items, pending_final, finals, released,
                   config, exit, t_cleanup, worker, broadcast, calls, trace>>

\* SubscriptionControl::subscribe
ControlSubscribe(params) ==
    /\ IF params \in DOMAIN control
       THEN /\ HasRoom
            /\ control' = [control EXCEPT ![params].count = @ + 1]
            /\ next_id' = next_id
            /\ ChannelSend(Subscribed(params, control[params].id), MaxQueue)
            /\ step' = Replied("subscribe", params, "Ok")
       ELSE IF total(control) >= config.max_active_subscriptions
            THEN /\ step' = Replied("subscribe", params, "CapacityExceeded")
                 /\ UNCHANGED <<control, next_id, queue>>
            ELSE /\ HasRoom
                 /\ control' = [p \in DOMAIN control \cup {params} |->
                                    IF p = params THEN [id |-> fresh_id, count |-> 1]
                                    ELSE control[p]]
                 /\ next_id' = next_id + 1
                 /\ ChannelSend(Subscribed(params, fresh_id), MaxQueue)
                 /\ step' = Replied("subscribe", params, "Ok")
    /\ run' = None
    /\ UNCHANGED <<bank_forks, subscriptions, recent_items, pending_final, finals, released,
                   config, exit, t_cleanup, worker, broadcast, calls, trace>>

\* The control were it to forget params when any holder gives them up.
DropToken_forgets(params) ==
    /\ control' = [p \in DOMAIN control \ {params} |-> control[p]]
    /\ ChannelSend(Unsubscribed(params, control[params].id), MaxQueue)
    /\ run' = None

\* One holder of params gives its subscription up.
DropToken(params) ==
    /\ control' = IF control[params].count = 1
                  THEN [p \in DOMAIN control \ {params} |-> control[p]]
                  ELSE [control EXCEPT ![params].count = @ - 1]
    /\ ChannelSend(Unsubscribed(params, control[params].id), MaxQueue)
    /\ run' = None

\* SubscriptionControl: a client unsubscribes.
ControlUnsubscribe(params) ==
    /\ params \in DOMAIN control
    /\ DropToken(params)
    /\ step' = Replied("unsubscribe", params, "Ok")
    /\ released' = released \cup {control[params].id}
    /\ UNCHANGED <<bank_forks, subscriptions, next_id, recent_items, pending_final, finals,
                   config, exit, t_cleanup, worker, broadcast, calls, trace>>

\* A transport handles a message with is_final set: it gives the subscription up.
HandleFinal(id) ==
    /\ id \in pending_final
    /\ LET held == {p \in DOMAIN control : control[p].id = id}
       IN  IF held = {}
           THEN /\ pending_final' = pending_final \ {id}
                /\ step' = NoStep
                /\ run' = None
                /\ UNCHANGED <<control, queue>>
           ELSE \E p \in held :
                /\ DropToken(p)
                /\ step' = NoStep
                /\ pending_final' = IF control[p].count = 1
                                    THEN pending_final \ {id}
                                    ELSE pending_final
    /\ UNCHANGED <<bank_forks, subscriptions, next_id, recent_items, finals, released,
                   config, exit, t_cleanup, worker, broadcast, calls, trace>>

(***************************************************************************)
(* The worker: process_notifications, one action per entry type.           *)
(***************************************************************************)
Receive(type) ==
    /\ worker = "recv_timeout"
    /\ queue # <<>>
    /\ Head(queue).type = type
    /\ queue' = Tail(queue)

\* The ids the messages of `sent` are for.
Notified(sent) == {sent[i].subscription_id : i \in 1..Len(sent)}

\* The history of a step that handled the head of the queue, sent `sent` and read
\* `read` of the commitment caches; the worker then loops and checks the exit flag
\* before it waits for the next entry.
\* The worker's loop were it to go on to the next entry without a look at the flag.
History_without_exit_check(sent, read) ==
    /\ worker' = "recv_timeout"
    /\ step' = [entry |-> Some(Head(queue)), notifications |-> sent,
                before |-> subscriptions, run |-> run, reply |-> None, read |-> read]
    /\ run' = Some([entry |-> Head(queue),
                    notified |-> IF IsSome(run) /\ Unwrap(run).entry = Head(queue)
                                 THEN Unwrap(run).notified \cup Notified(sent)
                                 ELSE Notified(sent),
                    unheard |-> (IF IsSome(run) /\ Unwrap(run).entry = Head(queue)
                                 THEN Unwrap(run).unheard
                                 ELSE {}) \cup
                                (IF DOMAIN broadcast = {} THEN Notified(sent) ELSE {})])
    /\ finals' = [id \in DOMAIN finals |->
                    LET n == finals[id] + Cardinality({i \in 1..Len(sent) :
                                /\ sent[i].subscription_id = id
                                /\ sent[i].is_final})
                    IN  IF n > 2 THEN 2 ELSE n]

History(sent, read) ==
    /\ worker' = IF exit THEN "exited" ELSE "recv_timeout"
    /\ step' = [entry |-> Some(Head(queue)), notifications |-> sent,
                before |-> subscriptions, run |-> run, reply |-> None, read |-> read]
    /\ run' = Some([entry |-> Head(queue),
                    notified |-> IF IsSome(run) /\ Unwrap(run).entry = Head(queue)
                                 THEN Unwrap(run).notified \cup Notified(sent)
                                 ELSE Notified(sent),
                    unheard |-> (IF IsSome(run) /\ Unwrap(run).entry = Head(queue)
                                 THEN Unwrap(run).unheard
                                 ELSE {}) \cup
                                (IF DOMAIN broadcast = {} THEN Notified(sent) ELSE {})])
    /\ finals' = [id \in DOMAIN finals |->
                    LET n == finals[id] + Cardinality({i \in 1..Len(sent) :
                                /\ sent[i].subscription_id = id
                                /\ sent[i].is_final})
                    IN  IF n > 2 THEN 2 ELSE n]

Observed(sent) == History(sent, None)

\* The last `n` of a sequence, or all of it.
Last(seq, n) ==
    IF Len(seq) <= n THEN seq ELSE SubSeq(seq, Len(seq) - n + 1, Len(seq))

\* Weak<String>: the payload a handle points at and how many payloads were pushed
\* onto the recent items after it, which is all that tells the payloads apart; a
\* handle max_len or more behind is behind for good.
Downgrade(json, behind) == [to |-> json, behind |-> behind]

Older(weak, n) ==
    Downgrade(weak.to, IF weak.behind + n > config.queue_capacity_items
                       THEN config.queue_capacity_items
                       ELSE weak.behind + n)

\* Weak::upgrade: the payload while the recent items still hold it.  Their queue is
\* the latest pushes, so it holds the payload that is `behind` pushes back when it
\* is longer than that.
upgrade(weak, items) == IF weak.behind < Len(items) THEN Some(weak.to) ELSE None

\* The channel were it to hand each receiver the payload itself.
Broadcast_strong(channel, sent) ==
    [r \in DOMAIN channel |->
        Last([i \in 1..Len(channel[r]) |-> channel[r][i]] \o
             [i \in 1..Len(sent) |-> [sent[i] EXCEPT !.json = Downgrade(sent[i].json, 0)]],
             config.queue_capacity_items)]

\* RpcNotifier::notify for each message of `sent`: every receiver of the channel is
\* sent the message with a weak handle on its payload, which is then pushed onto
\* the recent items; a receiver more than the channel's capacity behind loses the
\* oldest messages.  With no receiver the send fails and nothing is kept.
Broadcast(channel, sent) ==
    [r \in DOMAIN channel |->
        Last([i \in 1..Len(channel[r]) |->
                    [channel[r][i] EXCEPT !.json = Older(channel[r][i].json, Len(sent))]] \o
             [i \in 1..Len(sent) |->
                    [sent[i] EXCEPT !.json = Downgrade(sent[i].json, Len(sent) - i)]],
             config.queue_capacity_items)]

\* The notifier were it to give up a message that no receiver was sent.
Published_heard_only(sent) ==
    /\ recent_items' = IF DOMAIN broadcast = {}
                       THEN recent_items
                       ELSE PushAll(recent_items, [i \in 1..Len(sent) |-> JsonLen(sent[i].json)])
    /\ broadcast' = Broadcast(broadcast, sent)
    /\ pending_final' =
            pending_final \cup {sent[i].subscription_id : i \in {j \in 1..Len(sent) : sent[j].is_final}}
    /\ Observed(sent)

\* The notifier's part of a step that sends `sent`: the result of the send is ignored.
Published(sent) ==
    /\ recent_items' = PushAll(recent_items, [i \in 1..Len(sent) |-> JsonLen(sent[i].json)])
    /\ broadcast' = Broadcast(broadcast, sent)
    /\ pending_final' =
            pending_final \cup {sent[i].subscription_id : i \in {j \in 1..Len(sent) : sent[j].is_final}}
    /\ Observed(sent)

ProcessSubscribed ==
    /\ Receive("Subscribed")
    /\ \E cache_slot, cache_root, confirmed_slot \in Slots :
        /\ subscriptions' =
                TrackerSubscribe(subscriptions, Head(queue).params, Head(queue).id,
                                 initial_last_notified_slot(Head(queue).params, bank_forks,
                                                            cache_slot, cache_root,
                                                            confirmed_slot))
        /\ History(<<>>, IF /\ Head(queue).params.kind = "Account"
                            /\ Located(subscriptions, Head(queue).params) = {}
                         THEN Some([slot |-> cache_slot,
                                    highest_confirmed_root |-> cache_root,
                                    optimistically_confirmed_slot |-> confirmed_slot])
                         ELSE None)
    /\ UNCHANGED <<bank_forks, control, next_id, recent_items, pending_final, released,
                   config, exit, t_cleanup, broadcast, calls, trace>>

\* The Unsubscribed arm were it to leave the registry alone.
ProcessUnsubscribed_ignored ==
    /\ Receive("Unsubscribed")
    /\ Observed(<<>>)
    /\ UNCHANGED <<bank_forks, subscriptions, control, next_id, recent_items, pending_final,
                   released, config, exit, t_cleanup, broadcast, calls, trace>>

ProcessUnsubscribed ==
    /\ Receive("Unsubscribed")
    /\ subscriptions' = TrackerUnsubscribe(subscriptions, Head(queue).params, Head(queue).id)
    /\ Observed(<<>>)
    /\ UNCHANGED <<bank_forks, control, next_id, recent_items, pending_final, released,
                   config, exit, t_cleanup, broadcast, calls, trace>>

\* The outcome of check_commitment_and_notify for each watcher.
Outcomes(subs, watchers, forks, commitment_slots) ==
    [id \in watchers |->
        IF subs[id].params.kind \in CommitmentKinds
        THEN check_commitment_and_notify(id, subs[id], forks, commitment_slots,
                                         IsFinal(subs[id].params))
        ELSE [sent |-> <<>>, last_notified_slot |-> subs[id].last_notified_slot,
              notified |-> FALSE]]

notify_accounts_logs_programs_signatures(watchers, commitment_slots) ==
    LET outcome == Outcomes(subscriptions, watchers, bank_forks, commitment_slots)
    IN  /\ subscriptions' =
            [id \in DOMAIN subscriptions |->
                IF id \in watchers
                THEN [subscriptions[id] EXCEPT
                        !.last_notified_slot = outcome[id].last_notified_slot]
                ELSE subscriptions[id]]
        /\ \E order \in Orders(watchers) :
            Published(Flatten([i \in 1..Cardinality(watchers) |-> outcome[order[i]].sent]))

ProcessBank ==
    /\ Receive("Bank")
    /\ notify_accounts_logs_programs_signatures(commitment_watchers(subscriptions),
                                                Head(queue).commitment_slots)
    /\ UNCHANGED <<bank_forks, control, next_id, released, config, exit, t_cleanup, calls, trace>>

\* The Gossip arm were it to pass the commitment watchers.
ProcessGossip_commitment_watchers ==
    /\ Receive("Gossip")
    /\ notify_accounts_logs_programs_signatures(commitment_watchers(subscriptions),
                                                GossipCommitmentSlots(Head(queue).slot))
    /\ UNCHANGED <<bank_forks, control, next_id, released, config, exit, t_cleanup, calls, trace>>

ProcessGossip ==
    /\ Receive("Gossip")
    /\ notify_accounts_logs_programs_signatures(gossip_watchers(subscriptions),
                                                GossipCommitmentSlots(Head(queue).slot))
    /\ UNCHANGED <<bank_forks, control, next_id, released, config, exit, t_cleanup, calls, trace>>

\* ReceivedFor were it to skip the test of enable_received_notification.
ReceivedFor_ignoring_flag(subs, signature, slot, order) ==
    LET ids == SelectSeq(order, LAMBDA id : id \in by_signature(subs, signature))
    IN  [i \in 1..Len(ids) |->
            Notify(Response(slot, [tag |-> "ReceivedSignature"]), ids[i], subs[ids[i]], FALSE)]

\* The ReceivedSignature messages for one listed signature, in the order `order`
\* visits the subscriptions.
ReceivedFor(subs, signature, slot, order) ==
    LET ids == SelectSeq(order, LAMBDA id :
                    /\ id \in by_signature(subs, signature)
                    /\ subs[id].params.enable_received_notification)
    IN  [i \in 1..Len(ids) |->
            Notify(Response(slot, [tag |-> "ReceivedSignature"]), ids[i], subs[ids[i]], FALSE)]

ProcessSignaturesReceived ==
    /\ Receive("SignaturesReceived")
    /\ \E order \in Orders(DOMAIN subscriptions) :
        Published(Flatten([i \in 1..Len(Head(queue).signatures) |->
                            ReceivedFor(subscriptions, Head(queue).signatures[i],
                                        Head(queue).slot, order)]))
    /\ UNCHANGED <<bank_forks, subscriptions, control, next_id, released, config, exit, t_cleanup, calls, trace>>

(***************************************************************************)
(* The inputs: the banks a slot may hold, the subscriptions clients ask    *)
(* for, and the entries producers enqueue.                                 *)
(***************************************************************************)
\* A bank that processed, since its parent, a transfer signed sig1 that wrote a
\* stake account and a vote signed sig2, and in which alice was last modified at
\* `modified`.
ProcessedBank(modified) ==
    [accounts |-> [k \in Pubkeys |-> Some([account |-> AliceAccount, slot |-> modified])],
     signature_status |-> [s \in Signatures |-> IF s = "sig1" THEN Some("Ok") ELSE None],
     program_accounts |-> [p \in Programs |-> <<[pubkey |-> "bob", account |-> StakeAccount]>>],
     transaction_logs |-> Some(<<TransferLog, VoteLog>>)]

\* The banks bank_forks may hold at a slot, or none.
BanksAt(slot) ==
    {None, Some(EmptyBank)} \cup {Some(ProcessedBank(m)) : m \in 0..slot}

Ledgers == {forks \in [Slots -> UNION {BanksAt(s) : s \in Slots}] :
                \A s \in Slots : forks[s] \in BanksAt(s)}

Commitments == {"processed", "confirmed", "finalized"}

\* The CommitmentSlots of Bank entries: the finalized slot is no later than the
\* confirmed one, which is no later than the processed one.
AllCommitmentSlots ==
    {cs \in {CommitmentSlots(s, c, r) : s \in Slots, c \in Slots, r \in Slots} :
        /\ cs.highest_confirmed_root <= cs.highest_confirmed_slot
        /\ cs.highest_confirmed_slot <= cs.slot}

AccountParams == {AccountSubscriptionParams("alice", c, "Binary") : c \in Commitments}

\* One subscription of each kind; between them they watch every commitment.
KindParams ==
    {AccountSubscriptionParams("alice", "confirmed", "Binary"),
     ProgramSubscriptionParams("Stake", <<>>, "processed", "Binary"),
     LogsSubscriptionParams(LogsAll, "confirmed"),
     SignatureSubscriptionParams("sig1", "finalized", FALSE)}

\* PubSubConfig
PubSubConfig(queue_capacity_items, queue_capacity_bytes, max_active_subscriptions) ==
    [queue_capacity_items |-> queue_capacity_items,
     queue_capacity_bytes |-> queue_capacity_bytes,
     max_active_subscriptions |-> max_active_subscriptions]

\* The producers of node-progress entries, one thread each.
Producers == {"slot", "roots", "vote"}

\* What the producers and the worker did so far: the arguments of the calls each
\* producer began, the entries it sent with the call each belongs to, and the
\* entries the worker handled with the messages it sent for each.
NoTrace == [begun |-> [p \in Producers |-> <<>>],
            sent |-> [p \in Producers |-> <<>>],
            handled |-> <<>>]

\* new_with_config
StartWith(ledgers, configs) ==
    /\ bank_forks \in ledgers
    /\ config \in configs
    /\ exit = FALSE
    /\ t_cleanup = [handle |-> Some("solana-rpc-notifications"), joining |-> FALSE]
    /\ worker = "recv_timeout"
    /\ broadcast = <<>>
    /\ calls = [p \in Producers |-> <<>>]
    /\ trace = NoTrace
    /\ subscriptions = <<>>
    /\ control = <<>>
    /\ next_id = 0
    /\ queue = <<>>
    /\ recent_items = <<>>
    /\ pending_final = {}
    /\ finals = [id \in SubscriptionIds |-> 0]
    /\ released = {}
    /\ run = None
    /\ step = NoStep

Start(ledgers) ==
    StartWith(ledgers, {PubSubConfig(QueueCapacityItems, QueueCapacityBytes,
                                     MaxActiveSubscriptions)})

\* The engine with the ledger's banks changing and commitment entries arriving.
Pipeline(params) ==
    \/ \E s \in Slots : \E b \in BanksAt(s) : LedgerChange(s, b)
    \/ \E p \in params : ControlSubscribe(p)
    \/ \E p \in params : ControlUnsubscribe(p)
    \/ \E cs \in AllCommitmentSlots : notify_subscribers(cs)
    \/ \E s \in Slots : notify_gossip_subscribers(s)
    \/ ProcessSubscribed
    \/ ProcessUnsubscribed
    \/ ProcessBank
    \/ ProcessGossip

Init == Start(Ledgers)

\* Subscriptions of every kind.
Next ==
    \/ Pipeline(KindParams)
    \/ \E id \in SubscriptionIds : HandleFinal(id)

Spec == Init /\ [][Next]_vars

\* Account subscriptions at every commitment.
NextAccount == Pipeline(AccountParams)

SpecAccount == Init /\ [][NextAccount]_vars

(***************************************************************************)
(* Node progress: the slot, root and vote producers run in threads of      *)
(* their own and the worker forwards their entries to the singleton        *)
(* subscriptions.                                                          *)
(***************************************************************************)
\* The channel holds at most MaxBacklog node-progress entries.
MaxBacklog == 2

\* Each producer makes at most MaxCalls calls.
MaxCalls == 1

\* notify_roots is given at most MaxRoots slots.
MaxRoots == 2

\* timestamp()
Timestamps == {0}

RootLists == UNION {[1..n -> Slots] : n \in 1..MaxRoots}

\* A vote for the latest slot.
Votes == {[slots |-> <<MaxSlot>>, hash |-> "hash", timestamp |-> 0]}

NodeProgressParams == {SlotParams, SlotsUpdatesParams, VoteParams, RootParams}

RECURSIVE Insert(_, _)
Insert(sorted, x) ==
    IF sorted = <<>> THEN <<x>>
    ELSE IF x <= Head(sorted) THEN <<x>> \o sorted
    ELSE <<Head(sorted)>> \o Insert(Tail(sorted), x)

\* sort_unstable on slots
RECURSIVE sort_unstable(_)
sort_unstable(slots) ==
    IF slots = <<>> THEN <<>>
    ELSE Insert(sort_unstable(Tail(slots)), Head(slots))

\* A producer begins a call, given `argument`, that will enqueue `entries` in turn.
Begin(producer, argument, entries) ==
    /\ calls[producer] = <<>>
    /\ Len(trace.begun[producer]) < MaxCalls
    /\ calls' = [calls EXCEPT ![producer] = entries]
    /\ trace' = [trace EXCEPT !.begun[producer] = Append(@, argument)]
    /\ step' = NoStep
    /\ UNCHANGED <<bank_forks, subscriptions, control, next_id, queue, recent_items,
                   pending_final, finals, released, config, exit, t_cleanup, worker, broadcast, run>>

notify_slot(slot, parent, root) ==
    \E timestamp \in Timestamps :
        Begin("slot", <<slot, parent, root>>,
              <<Slot(SlotInfo(slot, parent, root)),
                SlotUpdate(CreatedBank(slot, parent, timestamp))>>)

notify_vote(vote) == Begin("vote", vote, <<Vote(vote)>>)

\* The entries of notify_roots were the Root event to go before the SlotUpdate.
RootEntries_root_first(rooted_slots, timestamp) ==
    Flatten([i \in 1..Len(rooted_slots) |->
                <<Root(rooted_slots[i]), SlotUpdate(RootUpdate(rooted_slots[i], timestamp))>>])

\* The entries of notify_roots for slots it visits in the order of `rooted_slots`.
RootEntries(rooted_slots, timestamp) ==
    Flatten([i \in 1..Len(rooted_slots) |->
                <<SlotUpdate(RootUpdate(rooted_slots[i], timestamp)), Root(rooted_slots[i])>>])

\* notify_roots were it to skip the sort.
notify_roots_unsorted(rooted_slots) ==
    \E timestamp \in Timestamps : Begin("roots", rooted_slots, RootEntries(rooted_slots, timestamp))

notify_roots(rooted_slots) ==
    \E timestamp \in Timestamps :
        Begin("roots", rooted_slots, RootEntries(sort_unstable(rooted_slots), timestamp))

\* The next enqueue_notification of the call a producer is in.
enqueue_pending(producer) ==
    /\ calls[producer] # <<>>
    /\ ChannelSend(Head(calls[producer]), MaxBacklog)
    /\ calls' = [calls EXCEPT ![producer] = Tail(@)]
    /\ trace' = [trace EXCEPT !.sent[producer] =
                    Append(@, [entry |-> Head(calls[producer]),
                               call |-> Len(trace.begun[producer])])]
    /\ step' = NoStep
    /\ UNCHANGED <<bank_forks, subscriptions, control, next_id, recent_items,
                   pending_final, finals, released, config, exit, t_cleanup, worker, broadcast, run>>

\* The node-progress arms were they to notify once for each holder.
notify_node_progress_each_holder(type, params, value) ==
    /\ Receive(type)
    /\ LET watchers == node_progress_watchers(subscriptions, params)
           sent == IF watchers = {} THEN <<>>
                   ELSE LET id == CHOOSE id \in watchers : TRUE
                        IN  [i \in 1..subscriptions[id].refcount |->
                                Notify(value, id, subscriptions[id], FALSE)]
       IN  /\ Published(sent)
           /\ trace' = [trace EXCEPT !.handled =
                            Append(@, [entry |-> Head(queue), notifications |-> sent])]
    /\ UNCHANGED <<bank_forks, subscriptions, control, next_id, released, config, exit, t_cleanup, calls>>

\* The Slot, SlotUpdate, Vote and Root arms: notify the subscription of `params`, if
\* there is one.
notify_node_progress(type, params, value) ==
    /\ Receive(type)
    /\ LET watchers == node_progress_watchers(subscriptions, params)
           sent == IF watchers = {} THEN <<>>
                   ELSE LET id == CHOOSE id \in watchers : TRUE
                        IN  <<Notify(value, id, subscriptions[id], FALSE)>>
       IN  /\ Published(sent)
           /\ trace' = [trace EXCEPT !.handled =
                            Append(@, [entry |-> Head(queue), notifications |-> sent])]
    /\ UNCHANGED <<bank_forks, subscriptions, control, next_id, released, config, exit, t_cleanup, calls>>

ProcessSlot == notify_node_progress("Slot", SlotParams, Head(queue).slot_info)

ProcessSlotUpdate ==
    notify_node_progress("SlotUpdate", SlotsUpdatesParams, Head(queue).slot_update)

ProcessVote == notify_node_progress("Vote", VoteParams, RpcVote(Head(queue).vote))

ProcessRoot == notify_node_progress("Root", RootParams, Head(queue).root)

InitNodeProgress == Start({[s \in Slots |-> None]})

\* The engine with clients holding subscriptions of `params` and the roots
\* producer given lists of `root_lists`.
NodeProgress(params, root_lists) ==
    \/ \E p \in params : ControlSubscribe(p)
    \/ \E p \in params : ControlUnsubscribe(p)
    \/ ProcessSubscribed
    \/ ProcessUnsubscribed
    \/ \E slot \in Slots : notify_slot(slot, 0, 0)
    \/ \E vote \in Votes : notify_vote(vote)
    \/ \E rooted_slots \in root_lists : notify_roots(rooted_slots)
    \/ \E producer \in Producers : enqueue_pending(producer)
    \/ ProcessSlot
    \/ ProcessSlotUpdate
    \/ ProcessVote
    \/ ProcessRoot

\* Every singleton subscription, and the latest slot as the one root.
NextNodeProgress == NodeProgress(NodeProgressParams, {<<MaxSlot>>})

SpecNodeProgress == InitNodeProgress /\ [][NextNodeProgress]_vars

\* The root subscription, and lists of roots in any order.
NextRoots == NodeProgress({RootParams}, RootLists)

SpecRoots == InitNodeProgress /\ [][NextRoots]_vars

\* The roots producer alone, with the Root and the SlotsUpdates subscription.
RootUpdateParams == {RootParams, SlotsUpdatesParams}

NextRootUpdates ==
    \/ \E p \in RootUpdateParams : ControlSubscribe(p)
    \/ ProcessSubscribed
    \/ \E rooted_slots \in RootLists : notify_roots(rooted_slots)
    \/ enqueue_pending("roots")
    \/ ProcessSlotUpdate
    \/ ProcessRoot

SpecRootUpdates == InitNodeProgress /\ [][NextRootUpdates]_vars

(***************************************************************************)
(* The control under each maximum of active subscriptions.                 *)
(***************************************************************************)
ControlParams == AccountParams \cup {SlotParams}

InitControl ==
    StartWith({[s \in Slots |-> None]},
              {PubSubConfig(QueueCapacityItems, QueueCapacityBytes, m) :
                    m \in 1..MaxActiveSubscriptions})

NextControl ==
    \/ \E p \in ControlParams : ControlSubscribe(p)
    \/ \E p \in ControlParams : ControlUnsubscribe(p)
    \/ ProcessSubscribed
    \/ ProcessUnsubscribed

SpecControl == InitControl /\ [][NextControl]_vars

(***************************************************************************)
(* The recent items under each pair of caps, pushed payloads of each       *)
(* length.                                                                 *)
(***************************************************************************)
\* queue_capacity_items is at most MaxLen.
MaxLen == 3

\* queue_capacity_bytes is at most MaxTotalBytes.
MaxTotalBytes == 6

\* A payload has at most MaxItemLen bytes.
MaxItemLen == 3

\* At most MaxPushes payloads are pushed.
MaxPushes == 4

InitRecentItems ==
    StartWith({[s \in Slots |-> None]},
              {PubSubConfig(max_len, max_total_bytes, MaxActiveSubscriptions) :
                    max_len \in 1..MaxLen, max_total_bytes \in 1..MaxTotalBytes})

\* RecentItems::push of a payload of item_len bytes; the trace keeps the lengths
\* pushed.
push(item_len) ==
    /\ Len(trace.handled) < MaxPushes
    /\ recent_items' = RecentItemsPush(recent_items, item_len)
    /\ trace' = [trace EXCEPT !.handled = Append(@, item_len)]
    /\ UNCHANGED <<bank_forks, subscriptions, control, next_id, queue, pending_final,
                   finals, released, config, exit, t_cleanup, worker, broadcast, calls, run, step>>

NextRecentItems == \E item_len \in 1..MaxItemLen : push(item_len)

SpecRecentItems == InitRecentItems /\ [][NextRecentItems]_vars

\* RecentItems::new: the struct with its byte counter, and the panic of a push, if
\* any.
RecentItemsNew(max_len, max_total_bytes) ==
    [queue |-> <<>>, total_bytes |-> 0, max_len |-> max_len,
     max_total_bytes |-> max_total_bytes, panic |-> None]

\* The eviction loop were it to leave total_bytes as it is.
RECURSIVE EvictCounted_not_subtracting(_)
EvictCounted_not_subtracting(items) ==
    IF items.total_bytes > items.max_total_bytes \/ Len(items.queue) > items.max_len
    THEN IF items.queue = <<>>
         THEN [items EXCEPT !.panic = Some("can't be empty")]
         ELSE EvictCounted_not_subtracting([items EXCEPT !.queue = Tail(@)])
    ELSE items

\* The eviction loop of RecentItems::push with its counter: pop_front().expect and
\* checked_sub().expect.
RECURSIVE EvictCounted(_)
EvictCounted(items) ==
    IF items.total_bytes > items.max_total_bytes \/ Len(items.queue) > items.max_len
    THEN IF items.queue = <<>>
         THEN [items EXCEPT !.panic = Some("can't be empty")]
         ELSE IF items.total_bytes < Head(items.queue)
         THEN [items EXCEPT !.queue = Tail(@), !.panic = Some("total bytes underflow")]
         ELSE EvictCounted([items EXCEPT !.queue = Tail(@),
                                         !.total_bytes = @ - Head(items.queue)])
    ELSE items

\* RecentItems::push on the struct; the lengths pushed are far from usize::MAX, so
\* checked_add gives the sum.
push_counted(item_len) ==
    /\ Len(trace.handled) < MaxPushes
    /\ recent_items.panic = None
    /\ recent_items' = EvictCounted([recent_items EXCEPT !.queue = Append(@, item_len),
                                                         !.total_bytes = @ + item_len])
    /\ trace' = [trace EXCEPT !.handled = Append(@, item_len)]
    /\ UNCHANGED <<bank_forks, subscriptions, control, next_id, queue, pending_final,
                   finals, released, config, exit, t_cleanup, worker, broadcast, calls,
                   run, step>>

\* Recent items of any caps from 0, held as the whole struct.
InitRecentItemsCounted ==
    /\ \E max_len \in 0..MaxLen, max_total_bytes \in 0..MaxTotalBytes :
            recent_items = RecentItemsNew(max_len, max_total_bytes)
    /\ bank_forks = [s \in Slots |-> None]
    /\ config = PubSubConfig(QueueCapacityItems, QueueCapacityBytes, MaxActiveSubscriptions)
    /\ exit = FALSE
    /\ t_cleanup = [handle |-> Some("solana-rpc-notifications"), joining |-> FALSE]
    /\ worker = "recv_timeout"
    /\ broadcast = <<>>
    /\ calls = [p \in Producers |-> <<>>]
    /\ trace = NoTrace
    /\ subscriptions = <<>>
    /\ control = <<>>
    /\ next_id = 0
    /\ queue = <<>>
    /\ pending_final = {}
    /\ finals = [id \in SubscriptionIds |-> 0]
    /\ released = {}
    /\ run = None
    /\ step = NoStep

NextRecentItemsCounted == \E item_len \in 1..MaxItemLen : push_counted(item_len)

SpecRecentItemsCounted == InitRecentItemsCounted /\ [][NextRecentItemsCounted]_vars

(***************************************************************************)
(* Every kind of entry through one channel: producers enqueue behind       *)
(* entries the worker has not handled yet.                                 *)
(***************************************************************************)
\* The worker forwards at most MaxForwarded node-progress entries.
MaxForwarded == 1

NodeProgressTypes == {"Slot", "SlotUpdate", "Vote", "Root"}

\* The ids the control holds: those whose subscribe has returned and whose last
\* unsubscribe has not.
HeldIds == {control[p].id : p \in DOMAIN control}

\* enqueue_notification behind a backlog; the entry is marked with the ids held,
\* the ids registered and the exit flag as it is sent.
enqueue_behind(notification_entry) ==
    /\ notification_entry.type \in NodeProgressTypes =>
            Len(trace.handled)
                + Cardinality({i \in 1..Len(queue) : queue[i].type \in NodeProgressTypes})
                < MaxForwarded
    /\ ChannelSend(notification_entry
                        @@ [held |-> HeldIds, registered |-> DOMAIN subscriptions,
                            exit |-> exit],
                   MaxBacklog)
    /\ IsSome(t_cleanup.handle)
    /\ step' = Enqueued(notification_entry)
    /\ run' = None
    /\ UNCHANGED <<bank_forks, subscriptions, control, next_id, recent_items,
                   pending_final, finals, released, config, exit, t_cleanup, worker, broadcast, calls, trace>>

EngineParams ==
    {AccountSubscriptionParams("alice", "processed", "Binary"),
     ProgramSubscriptionParams("Stake", <<>>, "processed", "Binary"),
     LogsSubscriptionParams(LogsAll, "processed"),
     SignatureSubscriptionParams("sig1", "processed", TRUE),
     SlotParams}

\* The entries the producers enqueue.
EngineEntries ==
    {Bank(CommitmentSlots(MaxSlot, 0, 0)),
     SignaturesReceived(0, <<"sig1">>),
     Slot(SlotInfo(MaxSlot, 0, 0)),
     SlotUpdate(RootUpdate(MaxSlot, 0)),
     Root(MaxSlot)}
        \cup {Vote(vote) : vote \in Votes}

\* A bank at every slot, in which alice was last modified at that slot.
InitEngine == Start({[s \in Slots |-> Some(ProcessedBank(s))]})

NextEngine ==
    \/ \E p \in EngineParams : ControlSubscribe(p)
    \/ \E p \in EngineParams : ControlUnsubscribe(p)
    \/ \E entry \in EngineEntries : enqueue_behind(entry)
    \/ ProcessSubscribed
    \/ ProcessUnsubscribed
    \/ ProcessBank
    \/ ProcessSignaturesReceived
    \/ ProcessSlot
    \/ ProcessSlotUpdate
    \/ ProcessVote
    \/ ProcessRoot

SpecEngine == InitEngine /\ [][NextEngine]_vars

\* A subscription of every kind, none given up.
MessageParams == EngineParams \cup NodeProgressParams

NextMessages ==
    \/ \E p \in MessageParams : ControlSubscribe(p)
    \/ \E entry \in EngineEntries : enqueue_behind(entry)
    \/ ProcessSubscribed
    \/ ProcessBank
    \/ ProcessSignaturesReceived
    \/ ProcessSlot
    \/ ProcessSlotUpdate
    \/ ProcessVote
    \/ ProcessRoot

SpecMessages == InitEngine /\ [][NextMessages]_vars

(***************************************************************************)
(* Program and logs subscriptions over banks whose modified accounts and   *)
(* transaction logs differ.                                                *)
(***************************************************************************)
BobAccount == [pubkey |-> "bob", account |-> StakeAccount]
CarolAccount ==
    [pubkey |-> "carol", account |-> [lamports |-> 2, data |-> <<0, 1>>, owner |-> "Stake"]]
DaveAccount ==
    [pubkey |-> "dave", account |-> [lamports |-> 3, data |-> <<1>>, owner |-> "Stake"]]

\* A bank in which these accounts of the program were modified and these logs,
\* if any, were collected.
FilterBank(accounts, logs) ==
    [EmptyBank EXCEPT !.program_accounts = [p \in Programs |-> accounts],
                      !.transaction_logs = logs]

FilterBanks ==
    {EmptyBank,
     FilterBank(<<BobAccount, CarolAccount, DaveAccount>>, Some(<<TransferLog, VoteLog>>)),
     FilterBank(<<DaveAccount, CarolAccount>>, Some(<<VoteLog, TransferLog, VoteLog>>)),
     FilterBank(<<BobAccount>>, Some(<<>>))}

FilterLedgers == [Slots -> {None} \cup {Some(bank) : bank \in FilterBanks}]

\* No filter, one of each type, and conjunctions.
ProgramFilters ==
    {<<>>,
     <<DataSize(2)>>,
     <<Memcmp(1, <<1>>)>>,
     <<DataSize(2), Memcmp(0, <<0>>)>>,
     <<Memcmp(0, <<0>>), Memcmp(1, <<0>>)>>}

FilterParams ==
    {ProgramSubscriptionParams("Stake", filters, "processed", "Binary") :
        filters \in ProgramFilters}
        \cup {LogsSubscriptionParams(kind, "processed") :
                kind \in {LogsAll, LogsAllWithVotes, LogsSingle("alice")}}

InitFilters == Start(FilterLedgers)

NextFilters ==
    \/ \E p \in FilterParams : ControlSubscribe(p)
    \/ \E cs \in AllCommitmentSlots : notify_subscribers(cs)
    \/ ProcessSubscribed
    \/ ProcessBank

SpecFilters == InitFilters /\ [][NextFilters]_vars

(***************************************************************************)
(* The registry under subscriptions of every kind coming and going, with   *)
(* the entries whose arms walk its indices.                                *)
(***************************************************************************)
RegistryParams ==
    {AccountSubscriptionParams("alice", "confirmed", "Binary"),
     ProgramSubscriptionParams("Stake", <<>>, "processed", "Binary"),
     LogsSubscriptionParams(LogsAllWithVotes, "confirmed"),
     SignatureSubscriptionParams("sig2", "confirmed", TRUE)}
        \cup NodeProgressParams

RegistryEntries ==
    {Bank(CommitmentSlots(MaxSlot, 0, 0)), Gossip(MaxSlot), SignaturesReceived(0, <<"sig2">>)}

NextRegistry ==
    \/ \E p \in RegistryParams : ControlSubscribe(p)
    \/ \E p \in RegistryParams : ControlUnsubscribe(p)
    \/ \E entry \in RegistryEntries : enqueue_behind(entry)
    \/ ProcessSubscribed
    \/ ProcessUnsubscribed
    \/ ProcessBank
    \/ ProcessGossip
    \/ ProcessSignaturesReceived

SpecRegistry == InitEngine /\ [][NextRegistry]_vars

(***************************************************************************)
(* Signature subscriptions, with the signatures-received entries and the   *)
(* transports that handle the is_final messages.                           *)
(***************************************************************************)
\* A SignaturesReceived entry lists at most MaxSignatures signatures.
MaxSignatures == 2

SignatureLists ==
    UNION {[1..n -> Signatures] : n \in 1..MaxSignatures}

SignatureParams ==
    {SignatureSubscriptionParams("sig1", "processed", TRUE),
     SignatureSubscriptionParams("sig1", "confirmed", FALSE),
     SignatureSubscriptionParams("sig2", "processed", TRUE)}

\* No bank, or one that processed sig1 and not sig2.
SignatureBanks == {None, Some(ProcessedBank(0))}

InitSignature == Start([Slots -> SignatureBanks])

NextSignature ==
    \/ \E s \in Slots : \E b \in SignatureBanks : LedgerChange(s, b)
    \/ \E p \in SignatureParams : ControlSubscribe(p)
    \/ \E p \in SignatureParams : ControlUnsubscribe(p)
    \/ \E cs \in AllCommitmentSlots : notify_subscribers(cs)
    \/ \E s \in Slots : notify_gossip_subscribers(s)
    \/ \E s \in Slots : \E signatures \in SignatureLists :
            notify_signatures_received(s, signatures)
    \/ \E id \in SubscriptionIds : HandleFinal(id)
    \/ ProcessSubscribed
    \/ ProcessUnsubscribed
    \/ ProcessBank
    \/ ProcessGossip
    \/ ProcessSignaturesReceived

SpecSignature == InitSignature /\ [][NextSignature]_vars

(***************************************************************************)
(* Shutdown: the exit flag is set, by shutdown or by whoever else holds    *)
(* it, and the worker exits at its next look at the flag.                  *)
(***************************************************************************)
\* What shutdown returned, with the handle as it found it.
Returned(result, handle) ==
    [NoStep EXCEPT !.reply = Some([request |-> "shutdown", params |-> None,
                                   result |-> result, before |-> handle])]

\* exit.store(true) by another holder of the flag.
exit_store ==
    /\ ~exit
    /\ exit' = TRUE
    /\ step' = NoStep
    /\ UNCHANGED <<bank_forks, subscriptions, control, next_id, queue, recent_items,
                   pending_final, finals, released, config, t_cleanup, worker, broadcast,
                   calls, trace, run>>

\* shutdown, up to the join: with the handle it sets the flag and takes the handle,
\* without it it warns and returns.
shutdown ==
    /\ ~t_cleanup.joining
    /\ IF IsSome(t_cleanup.handle)
       THEN /\ exit' = TRUE
            /\ t_cleanup' = [handle |-> None, joining |-> TRUE]
            /\ step' = NoStep
       ELSE /\ step' = Returned("already shut down", t_cleanup.handle)
            /\ UNCHANGED <<exit, t_cleanup>>
    /\ UNCHANGED <<bank_forks, subscriptions, control, next_id, queue, recent_items,
                   pending_final, finals, released, config, worker, broadcast,
                   calls, trace, run>>

\* join returns once the worker's thread has ended, and shutdown with it.
join ==
    /\ t_cleanup.joining
    /\ worker = "exited"
    /\ t_cleanup' = [t_cleanup EXCEPT !.joining = FALSE]
    /\ step' = Returned("Ok", Some("solana-rpc-notifications"))
    /\ UNCHANGED <<bank_forks, subscriptions, control, next_id, queue, recent_items,
                   pending_final, finals, released, config, exit, worker, broadcast,
                   calls, trace, run>>

\* The worker were it to wait for an entry without a timeout.
Timeout_never ==
    /\ worker = "recv_timeout"
    /\ queue = <<>>
    /\ UNCHANGED <<bank_forks, subscriptions, control, next_id, queue, recent_items,
                   pending_final, finals, released, config, exit, t_cleanup, worker,
                   broadcast, calls, trace, run, step>>

\* The Timeout arm: no entry came for RECEIVE_DELAY_MILLIS, and the worker loops
\* and checks the flag.
Timeout ==
    /\ worker = "recv_timeout"
    /\ queue = <<>>
    /\ worker' = IF exit THEN "exited" ELSE "recv_timeout"
    /\ UNCHANGED <<bank_forks, subscriptions, control, next_id, queue, recent_items,
                   pending_final, finals, released, config, exit, t_cleanup, broadcast,
                   calls, trace, run, step>>

\* A step of the worker's loop.
WorkerNext ==
    \/ ProcessSubscribed
    \/ ProcessUnsubscribed
    \/ ProcessBank
    \/ ProcessGossip
    \/ ProcessSignaturesReceived
    \/ ProcessSlot
    \/ ProcessSlotUpdate
    \/ ProcessVote
    \/ ProcessRoot
    \/ Timeout

\* An Account subscription and the Slot subscription.
ShutdownParams ==
    {AccountSubscriptionParams("alice", "processed", "Binary"), SlotParams}

\* One entry of each helper.
ShutdownEntries == EngineEntries \cup {Gossip(MaxSlot)}

NextShutdown ==
    \/ \E p \in ShutdownParams : ControlSubscribe(p)
    \/ \E p \in ShutdownParams : ControlUnsubscribe(p)
    \/ \E entry \in ShutdownEntries : enqueue_behind(entry)
    \/ exit_store
    \/ shutdown
    \/ join
    \/ WorkerNext

SpecShutdown == InitEngine /\ [][NextShutdown]_vars

\* The worker's loop with the Slot subscription and two producers that never stop.
TerminationEntries == {Gossip(MaxSlot), Slot(SlotInfo(MaxSlot, 0, 0))}

WorkerTurn ==
    \/ ProcessSubscribed
    \/ ProcessGossip
    \/ ProcessSlot
    \/ Timeout

NextTermination ==
    \/ ControlSubscribe(SlotParams)
    \/ \E entry \in TerminationEntries : enqueue_behind(entry)
    \/ exit_store
    \/ shutdown
    \/ join
    \/ WorkerTurn

\* The worker's thread keeps running: it is given an entry as soon as one is
\* queued, recv_timeout returns after RECEIVE_DELAY_MILLIS at the latest, and
\* handling an entry ends.  A join returns once the thread it waits for has ended.
\* Nothing is assumed of the producers.
SpecTermination ==
    /\ InitEngine
    /\ [][NextTermination]_vars
    /\ WF_vars(WorkerTurn)
    /\ WF_vars(join)

(***************************************************************************)
(* Broadcast receivers: a transport takes a receiver of the broadcast      *)
(* channel and reads each message's payload through its weak handle.       *)
(***************************************************************************)
\* At most MaxReceivers transports hold a receiver.
MaxReceivers == 2

Receivers == 1..MaxReceivers

\* What a receiver read: the message and the payload its handle gave, if any.
Received(receiver, message, payload) ==
    [NoStep EXCEPT !.reply = Some([request |-> "recv", params |-> message,
                                   result |-> payload, before |-> receiver])]

\* SubscriptionControl::broadcast_receiver: a receiver of the messages sent from now on.
broadcast_receiver(receiver) ==
    /\ receiver \notin DOMAIN broadcast
    /\ broadcast' = [r \in DOMAIN broadcast \cup {receiver} |->
                        IF r = receiver THEN <<>> ELSE broadcast[r]]
    /\ step' = NoStep
    /\ UNCHANGED <<bank_forks, subscriptions, control, next_id, queue, recent_items,
                   pending_final, finals, released, config, exit, t_cleanup, worker,
                   calls, trace, run>>

\* The transport drops its receiver.
drop_receiver(receiver) ==
    /\ receiver \in DOMAIN broadcast
    /\ broadcast' = [r \in DOMAIN broadcast \ {receiver} |-> broadcast[r]]
    /\ step' = NoStep
    /\ UNCHANGED <<bank_forks, subscriptions, control, next_id, queue, recent_items,
                   pending_final, finals, released, config, exit, t_cleanup, worker,
                   calls, trace, run>>

\* The transport receives its next message and upgrades the handle.
recv(receiver) ==
    /\ receiver \in DOMAIN broadcast
    /\ broadcast[receiver] # <<>>
    /\ broadcast' = [broadcast EXCEPT ![receiver] = Tail(@)]
    /\ step' = Received(receiver, Head(broadcast[receiver]),
                        upgrade(Head(broadcast[receiver]).json, recent_items))
    /\ UNCHANGED <<bank_forks, subscriptions, control, next_id, queue, recent_items,
                   pending_final, finals, released, config, exit, t_cleanup, worker,
                   calls, trace, run>>

\* An Account subscription, and a Logs subscription that is sent two messages for
\* each bank.
BroadcastParams ==
    {AccountSubscriptionParams("alice", "processed", "Binary"),
     LogsSubscriptionParams(LogsAllWithVotes, "processed")}

\* Every slot holds a bank that processed the transfer and the vote.
BroadcastBanks(slot) == {Some(ProcessedBank(m)) : m \in 0..slot}

\* Recent items of one payload or two, with room for the bytes of none, one or two.
InitBroadcast ==
    StartWith({[s \in Slots |-> Some(ProcessedBank(s))]},
              {PubSubConfig(items, bytes, MaxActiveSubscriptions) :
                    items \in 1..2, bytes \in {1, QueueCapacityBytes \div 2, QueueCapacityBytes}})

NextBroadcast ==
    \/ \E s \in Slots : \E b \in BroadcastBanks(s) : LedgerChange(s, b)
    \/ \E p \in BroadcastParams : ControlSubscribe(p)
    \/ \E p \in BroadcastParams : ControlUnsubscribe(p)
    \/ \E s \in Slots : notify_subscribers(CommitmentSlots(s, 0, 0))
    \/ \E r \in Receivers : broadcast_receiver(r)
    \/ \E r \in Receivers : drop_receiver(r)
    \/ \E r \in Receivers : recv(r)
    \/ ProcessSubscribed
    \/ ProcessUnsubscribed
    \/ ProcessBank

SpecBroadcast == InitBroadcast /\ [][NextBroadcast]_vars

(***************************************************************************)
(* Payloads of two lengths against a byte cap that the longer may exceed:  *)
(* a slotNotification is one unit long and an accountNotification two.     *)
(***************************************************************************)
OversizedParams == {SlotParams, AccountSubscriptionParams("alice", "processed", "Binary")}

OversizedEntries == {Slot(SlotInfo(MaxSlot, 0, 0)), Bank(CommitmentSlots(MaxSlot, 0, 0))}

InitOversized ==
    StartWith({[s \in Slots |-> Some(ProcessedBank(s))]},
              {PubSubConfig(items, bytes, MaxActiveSubscriptions) :
                    items \in 1..2, bytes \in 1..2})

NextOversized ==
    \/ \E p \in OversizedParams : ControlSubscribe(p)
    \/ \E entry \in OversizedEntries : enqueue_behind(entry)
    \/ \E r \in Receivers : broadcast_receiver(r)
    \/ \E r \in Receivers : recv(r)
    \/ ProcessSubscribed
    \/ ProcessSlot
    \/ ProcessBank

SpecOversized == InitOversized /\ [][NextOversized]_vars

(***************************************************************************)
(* What the worker's latest step did, read off the history variables.      *)
(***************************************************************************)
StepIs(type) == IsSome(step.entry) /\ Unwrap(step.entry).type = type

CommitmentStep == StepIs("Bank") \/ StepIs("Gossip")

\* The messages the latest step sent for subscription id, in order.
SentTo(id) == SelectSeq(step.notifications, LAMBDA m : m.subscription_id = id)

\* Whether handling `entry` evaluates a subscription with these parameters.
Watches(entry, params) ==
    /\ params.kind \in CommitmentKinds
    /\ \/ entry.type = "Bank"
       \/ entry.type = "Gossip" /\ params.commitment = "confirmed"

\* The slot `entry` resolves a subscription of this commitment to.
SlotFor(entry, commitment) ==
    IF entry.type = "Gossip"
    THEN IF commitment = "confirmed" THEN entry.slot ELSE 0
    ELSE CASE commitment = "finalized" -> entry.commitment_slots.highest_confirmed_root
           [] commitment = "confirmed" -> entry.commitment_slots.highest_confirmed_slot
           [] commitment = "processed" -> entry.commitment_slots.slot

\* The latest step was a commitment step that evaluated subscription id.
Evaluated(id) ==
    /\ CommitmentStep
    /\ id \in DOMAIN step.before
    /\ Watches(Unwrap(step.entry), step.before[id].params)

ResolvedSlot(id) == SlotFor(Unwrap(step.entry), step.before[id].params.commitment)

\* The bank the latest step evaluated subscription id against, if bank_forks holds it.
ResolvedBank(id) == bank_forks[ResolvedSlot(id)]

\* The account subscriptions the latest step evaluated against an existing bank.
AccountsEvaluated ==
    {id \in DOMAIN step.before :
        /\ Evaluated(id)
        /\ step.before[id].params.kind = "Account"
        /\ IsSome(ResolvedBank(id))}

\* What the bank the step resolved to holds of the subscription's account.
AccountFound(id) == Unwrap(ResolvedBank(id)).accounts[step.before[id].params.pubkey]

\* The number of values a bank holds for a subscription last notified at `last`.
Matches(bank, params, last) ==
    CASE params.kind = "Account" ->
            LET found == bank.accounts[params.pubkey]
                modified == IF IsSome(found) THEN Unwrap(found).slot ELSE 0
            IN  IF modified # last THEN 1 ELSE 0
      [] params.kind = "Program" ->
            Cardinality({i \in 1..Len(bank.program_accounts[params.pubkey]) :
                \A f \in 1..Len(params.filters) :
                    FilterMatches(params.filters[f],
                                  bank.program_accounts[params.pubkey][i].account)})
      [] params.kind = "Logs" ->
            IF ~IsSome(bank.transaction_logs) THEN 0
            ELSE Cardinality({i \in 1..Len(Unwrap(bank.transaction_logs)) :
                    LET log == Unwrap(bank.transaction_logs)[i]
                    IN  CASE params.logs_kind.tag = "All" -> ~log.is_vote
                          [] params.logs_kind.tag = "AllWithVotes" -> TRUE
                          [] params.logs_kind.tag = "Single" ->
                                params.logs_kind.pubkey \in log.mentioned})
      [] params.kind = "Signature" ->
            IF IsSome(bank.signature_status[params.signature]) THEN 1 ELSE 0

\* The latest step handled the same entry as the step before it, with the ledger
\* unchanged in between.
Repeated == IsSome(step.run) /\ Unwrap(step.run).entry = Unwrap(step.entry)

(***************************************************************************)
(* C1: for an Account subscription and an unchanged ledger, handling the   *)
(* same Bank entry any number of times in a row sends at most one          *)
(* accountNotification in total: a Bank step sends at most one, and a Bank *)
(* step that repeats the entry of the step before it sends none.           *)
(***************************************************************************)
C1_IdenticalBankEventsNotifyOnce ==
    StepIs("Bank") =>
        \A id \in DOMAIN step.before :
            step.before[id].params.kind = "Account" =>
                /\ Len(SentTo(id)) <= 1
                /\ Repeated => SentTo(id) = <<>>

\* A Bank entry handled again right after it had notified an Account subscription.
C1_Witness ==
    /\ StepIs("Bank")
    /\ Repeated
    /\ \E id \in AccountsEvaluated :
        /\ id \in Unwrap(step.run).notified
        /\ SentTo(id) = <<>>

(***************************************************************************)
(* C2: an Account subscription with last_notified_slot S1, evaluated by a  *)
(* Bank or Gossip entry against a bank in which the account was modified   *)
(* at S2 # S1, is sent exactly one notification and its last_notified_slot *)
(* becomes S2, also when S2 < S1.                                          *)
(***************************************************************************)
C2_ModifiedSlotChangeNotifiesOnce ==
    \A id \in AccountsEvaluated :
        (/\ IsSome(AccountFound(id))
         /\ Unwrap(AccountFound(id)).slot # step.before[id].last_notified_slot)
        => /\ Len(SentTo(id)) = 1
           /\ SentTo(id)[1].json.method = "accountNotification"
           /\ SentTo(id)[1].json.params.result.value.lamports =
                    Unwrap(AccountFound(id)).account.lamports
           /\ subscriptions[id].last_notified_slot = Unwrap(AccountFound(id)).slot

\* A fork revert: the account's modified slot is below the slot last notified.
C2_Witness ==
    \E id \in AccountsEvaluated :
        /\ IsSome(AccountFound(id))
        /\ Unwrap(AccountFound(id)).slot < step.before[id].last_notified_slot
        /\ Len(SentTo(id)) = 1
        /\ subscriptions[id].last_notified_slot < step.before[id].last_notified_slot

(***************************************************************************)
(* C3: when the bank at the resolved slot holds no account for an Account  *)
(* subscription whose last_notified_slot is not 0, the subscription is     *)
(* sent exactly one notification, carrying the default account, and its    *)
(* last_notified_slot becomes 0.                                           *)
(***************************************************************************)
C3_AbsentAccountNotifiesDefault ==
    \A id \in AccountsEvaluated :
        (/\ ~IsSome(AccountFound(id))
         /\ step.before[id].last_notified_slot # 0)
        => /\ Len(SentTo(id)) = 1
           /\ SentTo(id)[1].json.params.result.value.lamports = 0
           /\ SentTo(id)[1].json.params.result.value.data[1] = <<>>
           /\ SentTo(id)[1].json.params.result.value.owner = "System"
           /\ subscriptions[id].last_notified_slot = 0

\* An account that was notified at a slot above 0 and is absent from the bank.
C3_Witness ==
    \E id \in AccountsEvaluated :
        /\ ~IsSome(AccountFound(id))
        /\ step.before[id].last_notified_slot > 0
        /\ Len(SentTo(id)) = 1
        /\ subscriptions[id].last_notified_slot = 0

(***************************************************************************)
(* C4, as claimed: for a subscription of any of the four commitment kinds, *)
(* a commitment step that resolves it to the slot the step before resolved *)
(* it to, with the ledger unchanged in between, sends it nothing.          *)
(***************************************************************************)
\* The step before the latest evaluated subscription id at the same slot.
EvaluatedAtSameSlotBefore(id) ==
    /\ Evaluated(id)
    /\ IsSome(step.run)
    /\ Watches(Unwrap(step.run).entry, step.before[id].params)
    /\ SlotFor(Unwrap(step.run).entry, step.before[id].params.commitment) = ResolvedSlot(id)

C9_BankEntryResolvesByCommitment ==
    StepIs("Bank") =>
        \A id \in DOMAIN step.before :
            LET params == step.before[id].params
                cs == Unwrap(step.entry).commitment_slots
                slot == IF params.commitment = "finalized" THEN cs.highest_confirmed_root
                        ELSE IF params.commitment = "confirmed"
                             THEN cs.highest_confirmed_slot
                             ELSE cs.slot
            IN  /\ \A i \in 1..Len(SentTo(id)) :
                        SentTo(id)[i].json.params.result.context.slot = slot
                /\ IsSome(bank_forks[slot]) =>
                        Len(SentTo(id)) = Matches(Unwrap(bank_forks[slot]), params,
                                                  step.before[id].last_notified_slot)

\* An account notification whose context.slot is not the account's modified slot,
\* under CommitmentSlots whose three slots are not all equal.
C9_Witness ==
    /\ StepIs("Bank")
    /\ Unwrap(step.entry).commitment_slots.slot
            # Unwrap(step.entry).commitment_slots.highest_confirmed_root
    /\ \E id \in AccountsEvaluated :
        /\ Len(SentTo(id)) = 1
        /\ IsSome(AccountFound(id))
        /\ SentTo(id)[1].json.params.result.context.slot # Unwrap(AccountFound(id)).slot

(***************************************************************************)
(* C10: a Bank or Gossip entry that resolves a subscription to a slot      *)
(* bank_forks holds no bank for sends it nothing and leaves its            *)
(* last_notified_slot as it was; an entry that then resolves it to a slot  *)
(* with a bank sends it what that bank holds for it.                       *)
(***************************************************************************)
\* The step before the latest resolved subscription id to a slot without a bank.
SkippedBefore(id) ==
    /\ Evaluated(id)
    /\ IsSome(step.run)
    /\ Watches(Unwrap(step.run).entry, step.before[id].params)
    /\ ~IsSome(bank_forks[SlotFor(Unwrap(step.run).entry, step.before[id].params.commitment)])

C10_MissingBankIsSkipped ==
    \A id \in DOMAIN step.before :
        Evaluated(id) =>
            IF IsSome(ResolvedBank(id))
            THEN SkippedBefore(id) =>
                    Len(SentTo(id)) = Matches(Unwrap(ResolvedBank(id)), step.before[id].params,
                                              step.before[id].last_notified_slot)
            ELSE /\ SentTo(id) = <<>>
                 /\ subscriptions[id] = step.before[id]

\* A subscription skipped for a missing bank and notified by the next entry.
C10_Witness ==
    \E id \in DOMAIN step.before :
        /\ SkippedBefore(id)
        /\ IsSome(ResolvedBank(id))
        /\ SentTo(id) # <<>>

(***************************************************************************)
(* C5, as claimed: once a ProcessedSignature notification was sent for a   *)
(* Signature subscription, none is sent for it again, whatever Bank or     *)
(* Gossip entries follow in the queue.                                     *)
(***************************************************************************)
C5_OneTerminalNotification ==
    \A id \in SubscriptionIds : finals[id] <= 1

(***************************************************************************)
(* C6: a Signature subscription is removed after its terminal              *)
(* notification without a client unsubscribing: the ProcessedSignature     *)
(* message is sent with is_final set; once the transports have handled it  *)
(* the subscription control no longer reports the subscription, and once   *)
(* the worker has received what they enqueued the registry no longer holds *)
(* it.                                                                     *)
(***************************************************************************)
\* SubscriptionControl still reports subscription id as subscribed.
ControlReports(id) == \E p \in DOMAIN control : control[p].id = id

\* No entry about subscription id waits in the queue.
Settled(id) == \A i \in 1..Len(queue) :
    queue[i].type \in {"Subscribed", "Unsubscribed"} => queue[i].id # id

C6_TerminalNotificationRemoves ==
    /\ \A i \in 1..Len(step.notifications) :
            step.notifications[i].json.params.result.value.tag = "ProcessedSignature"
                => step.notifications[i].is_final
    /\ \A id \in SubscriptionIds :
            (finals[id] > 0 /\ id \notin pending_final) =>
                /\ ~ControlReports(id)
                /\ Settled(id) => id \notin DOMAIN subscriptions

\* The worker removes a subscription no client unsubscribed from.
C6_Witness ==
    /\ StepIs("Unsubscribed")
    /\ LET id == Unwrap(step.entry).id
       IN  /\ id \in DOMAIN step.before
           /\ id \notin DOMAIN subscriptions
           /\ step.before[id].params.kind = "Signature"
           /\ finals[id] > 0
           /\ id \notin released
           /\ ~ControlReports(id)

(***************************************************************************)
(* C7: a Signature subscription whose signature has no processed status in *)
(* the bank examined is sent no commitment-level notification; Bank,       *)
(* Gossip and SignaturesReceived entries leave the registry as it is; and  *)
(* a Signature subscription leaves the registry only when an Unsubscribed  *)
(* entry is handled, after a client unsubscribed or a terminal             *)
(* notification was sent.                                                  *)
(***************************************************************************)
\* The latest step examined no bank holding a processed status for subscription id.
NoProcessedStatus(id) ==
    \/ ~IsSome(ResolvedBank(id))
    \/ ~IsSome(Unwrap(ResolvedBank(id)).signature_status[step.before[id].params.signature])

C7_UnsatisfiedSignatureStays ==
    /\ (CommitmentStep \/ StepIs("SignaturesReceived")) =>
            /\ DOMAIN subscriptions = DOMAIN step.before
            /\ \A id \in DOMAIN subscriptions :
                /\ subscriptions[id].params = step.before[id].params
                /\ subscriptions[id].refcount = step.before[id].refcount
    /\ \A id \in DOMAIN step.before :
            step.before[id].params.kind = "Signature" =>
                /\ (Evaluated(id) /\ NoProcessedStatus(id)) => SentTo(id) = <<>>
                /\ \A i \in 1..Len(SentTo(id)) :
                        SentTo(id)[i].json.params.result.value.tag = "ProcessedSignature"
                            => Evaluated(id)
                /\ id \notin DOMAIN subscriptions =>
                        /\ StepIs("Unsubscribed")
                        /\ id \in released \/ finals[id] > 0

\* A subscription that was sent a 'received' notification is then evaluated against a
\* bank without a status for its signature, and stays.
C7_Witness ==
    /\ StepIs("Bank")
    /\ IsSome(step.run)
    /\ Unwrap(step.run).entry.type = "SignaturesReceived"
    /\ \E id \in Unwrap(step.run).notified :
        /\ Evaluated(id)
        /\ IsSome(ResolvedBank(id))
        /\ NoProcessedStatus(id)
        /\ SentTo(id) = <<>>
        /\ id \in DOMAIN subscriptions
        /\ finals[id] = 0

(***************************************************************************)
(* C8: handling SignaturesReceived((slot, signatures)) sends, for each     *)
(* listed signature, one ReceivedSignature notification with context.slot  *)
(* = slot and is_final unset to every subscription on that signature with  *)
(* enable_received_notification set, and nothing to any other              *)
(* subscription.                                                           *)
(***************************************************************************)
\* How many times a sequence lists x.
Occurrences(seq, x) == Cardinality({i \in 1..Len(seq) : seq[i] = x})

C8_SignaturesReceivedNotifies ==
    StepIs("SignaturesReceived") =>
        LET entry == Unwrap(step.entry)
        IN  /\ \A id \in DOMAIN step.before :
                    Len(SentTo(id)) =
                        IF /\ step.before[id].params.kind = "Signature"
                           /\ step.before[id].params.enable_received_notification
                        THEN Occurrences(entry.signatures, step.before[id].params.signature)
                        ELSE 0
            /\ \A i \in 1..Len(step.notifications) :
                    LET m == step.notifications[i]
                    IN  /\ m.subscription_id \in DOMAIN step.before
                        /\ ~m.is_final
                        /\ m.json.method = "signatureNotification"
                        /\ m.json.params.result.value.tag = "ReceivedSignature"
                        /\ m.json.params.result.context.slot = entry.slot
                        /\ m.json.params.subscription = m.subscription_id

\* Two subscriptions on one listed signature: the one with the flag set is notified,
\* the other is not.
C8_Witness ==
    /\ StepIs("SignaturesReceived")
    /\ \E id, other \in DOMAIN step.before :
        /\ step.before[id].params.signature = step.before[other].params.signature
        /\ step.before[id].params.signature \in Range(Unwrap(step.entry).signatures)
        /\ step.before[id].params.enable_received_notification
        /\ ~step.before[other].params.enable_received_notification
        /\ Len(SentTo(id)) = 1
        /\ SentTo(other) = <<>>

(***************************************************************************)
(* C11: a Gossip(s) entry evaluates every subscription at confirmed        *)
(* commitment against the bank at slot s: what it sends the subscription   *)
(* is what that bank holds for it, and every message of the step carries   *)
(* context.slot = s, so the messages of successive Gossip entries come in  *)
(* the order of the entries.                                               *)
(***************************************************************************)
C11_GossipEvaluatesAtItsSlot ==
    StepIs("Gossip") =>
        LET s == Unwrap(step.entry).slot
        IN  /\ \A i \in 1..Len(step.notifications) :
                    step.notifications[i].json.params.result.context.slot = s
            /\ \A id \in DOMAIN step.before :
                    (/\ step.before[id].params.kind \in CommitmentKinds
                     /\ step.before[id].params.commitment = "confirmed")
                    => Len(SentTo(id)) =
                            IF IsSome(bank_forks[s])
                            THEN Matches(Unwrap(bank_forks[s]), step.before[id].params,
                                         step.before[id].last_notified_slot)
                            ELSE 0

\* Two Gossip entries for different slots, handled one after the other, each notify
\* the same subscription.
C11_Witness ==
    /\ StepIs("Gossip")
    /\ IsSome(step.run)
    /\ Unwrap(step.run).entry.type = "Gossip"
    /\ Unwrap(step.run).entry.slot # Unwrap(step.entry).slot
    /\ \E id \in Unwrap(step.run).notified :
        /\ SentTo(id) # <<>>
        /\ SentTo(id)[1].json.params.result.context.slot = Unwrap(step.entry).slot

(***************************************************************************)
(* C12: a Gossip entry sends nothing to a subscription whose commitment is *)
(* processed or finalized, and leaves its last_notified_slot as it was.    *)
(***************************************************************************)
C12_GossipSkipsOtherCommitments ==
    StepIs("Gossip") =>
        \A id \in DOMAIN step.before :
            step.before[id].params.commitment # "confirmed" =>
                /\ SentTo(id) = <<>>
                /\ subscriptions[id] = step.before[id]

\* A finalized or processed Account subscription that the banks at slot 0 and at the
\* Gossip slot would both give a notification, and that gets none.
C12_Witness ==
    /\ StepIs("Gossip")
    /\ \E id \in DOMAIN step.before :
        /\ step.before[id].params.kind = "Account"
        /\ step.before[id].params.commitment = "finalized"
        /\ \A slot \in {0, Unwrap(step.entry).slot} :
            /\ IsSome(bank_forks[slot])
            /\ Matches(Unwrap(bank_forks[slot]), step.before[id].params,
                       step.before[id].last_notified_slot) = 1
        /\ SentTo(id) = <<>>

(***************************************************************************)
(* Node progress                                                           *)
(***************************************************************************)
\* The Root entries the roots producer sent, and those the worker handled.
RootsSent == SelectSeq(trace.sent["roots"], LAMBDA r : r.entry.type = "Root")
RootsHandled == SelectSeq(trace.handled, LAMBDA h : h.entry.type = "Root")

\* The payload of the message a handled entry was forwarded as.
Payload(h) == h.notifications[1].json.params.result

\* C13: the rootNotification payloads of the slots of one notify_roots call are
\* delivered in ascending order of slot, whatever the order of the list given.
C13_RootsOfOneCallAscend ==
    \A i, j \in 1..Len(RootsHandled) :
        (/\ i < j
         /\ RootsSent[i].call = RootsSent[j].call
         /\ RootsHandled[i].notifications # <<>>
         /\ RootsHandled[j].notifications # <<>>)
        => /\ RootsHandled[i].notifications[1].json.method = "rootNotification"
           /\ Payload(RootsHandled[i]) <= Payload(RootsHandled[j])

\* notify_roots was given slot 1 before slot 0 and both root messages went out.
C13_Witness ==
    /\ trace.begun["roots"] = << <<1, 0>> >>
    /\ Len(RootsHandled) = 2
    /\ \A i \in 1..2 : RootsHandled[i].notifications # <<>>
    /\ Payload(RootsHandled[1]) = 0
    /\ Payload(RootsHandled[2]) = 1

\* The producer an entry comes from.
From(producer, entry) ==
    CASE producer = "slot" ->
            \/ entry.type = "Slot"
            \/ /\ entry.type = "SlotUpdate"
               /\ entry.slot_update.tag = "createdBank"
      [] producer = "roots" ->
            \/ entry.type = "Root"
            \/ /\ entry.type = "SlotUpdate"
               /\ entry.slot_update.tag = "root"
      [] producer = "vote" -> entry.type = "Vote"

SentBy(producer) == [i \in 1..Len(trace.sent[producer]) |-> trace.sent[producer][i].entry]
HandledOf(producer) ==
    SelectSeq([i \in 1..Len(trace.handled) |-> trace.handled[i].entry],
              LAMBDA entry : From(producer, entry))
QueuedOf(producer) == SelectSeq(queue, LAMBDA entry : From(producer, entry))

\* C14: the entries one producer thread enqueued are handled in the order it
\* enqueued them, each once: what it sent is what the worker handled of it,
\* followed by what the channel still holds of it.
C14_EachProducerInItsOrder ==
    \A producer \in Producers :
        SentBy(producer) = HandledOf(producer) \o QueuedOf(producer)

\* The worker handled both entries of a notify_slot call and, between them, the
\* entry of another producer.
C14_Witness ==
    /\ Len(HandledOf("slot")) = 2
    /\ \E i, j, k \in 1..Len(trace.handled) :
        /\ i < j
        /\ j < k
        /\ From("slot", trace.handled[i].entry)
        /\ ~From("slot", trace.handled[j].entry)
        /\ From("slot", trace.handled[k].entry)

\* The singleton params an entry of node progress is forwarded to.
ParamsFor(entry) ==
    CASE entry.type = "Slot" -> SlotParams
      [] entry.type = "SlotUpdate" -> SlotsUpdatesParams
      [] entry.type = "Vote" -> VoteParams
      [] entry.type = "Root" -> RootParams

\* What is forwarded of it.
ValueOf(entry) ==
    CASE entry.type = "Slot" -> entry.slot_info
      [] entry.type = "SlotUpdate" -> entry.slot_update
      [] entry.type = "Vote" -> RpcVote(entry.vote)
      [] entry.type = "Root" -> entry.root

NodeProgressStep ==
    \/ StepIs("Slot")
    \/ StepIs("SlotUpdate")
    \/ StepIs("Vote")
    \/ StepIs("Root")

\* The subscriptions of the params of the step's entry, as the step found them.
StepWatchers ==
    {id \in DOMAIN step.before : step.before[id].params = ParamsFor(Unwrap(step.entry))}

\* C19: a Slot, SlotUpdate, Vote or Root entry yields one message, not final and
\* carrying the entry's value, when the subscription of its kind is registered,
\* however many hold it, and none when it is not.
C19_OneMessagePerNodeProgressEntry ==
    NodeProgressStep =>
        IF StepWatchers = {}
        THEN step.notifications = <<>>
        ELSE /\ Len(step.notifications) = 1
             /\ step.notifications[1].subscription_id \in StepWatchers
             /\ ~step.notifications[1].is_final
             /\ step.notifications[1].json.method = Method(ParamsFor(Unwrap(step.entry)))
             /\ step.notifications[1].json.params.result = ValueOf(Unwrap(step.entry))

\* An entry was forwarded once to a subscription that two clients hold.
C19_Witness ==
    /\ NodeProgressStep
    /\ \E id \in StepWatchers : step.before[id].refcount = 2
    /\ Len(step.notifications) = 1

(***************************************************************************)
(* The control                                                             *)
(***************************************************************************)
ReplyIs(request) == IsSome(step.reply) /\ Unwrap(step.reply).request = request

\* The holders of params in a control.
Holders(ctl, params) == IF params \in DOMAIN ctl THEN ctl[params].count ELSE 0

\* C15: the total counts the params that have a holder: a subscribe that succeeds
\* raises it by one when nobody held the params and leaves it otherwise, and an
\* unsubscribe lowers it by one when it was the last holder's and leaves it, with
\* the params still held, otherwise.
C15_TotalCountsDistinctParams ==
    /\ total(control) = Cardinality({p \in DOMAIN control : control[p].count >= 1})
    /\ \A p \in DOMAIN control : control[p].count >= 1
    /\ (ReplyIs("subscribe") /\ Unwrap(step.reply).result = "Ok") =>
            LET reply == Unwrap(step.reply)
            IN  /\ Holders(control, reply.params) = Holders(reply.before, reply.params) + 1
                /\ total(control) = total(reply.before)
                                        + IF reply.params \in DOMAIN reply.before THEN 0 ELSE 1
    /\ ReplyIs("unsubscribe") =>
            LET reply == Unwrap(step.reply)
            IN  /\ Holders(control, reply.params) = Holders(reply.before, reply.params) - 1
                /\ total(control) = total(reply.before)
                                        - IF reply.before[reply.params].count = 1 THEN 1 ELSE 0

\* One of the two holders of some params unsubscribed: the total stays.
C15_Witness ==
    /\ ReplyIs("unsubscribe")
    /\ Unwrap(step.reply).before[Unwrap(step.reply).params].count = 2
    /\ total(control) = 1
    /\ Unwrap(step.reply).params \in DOMAIN control

\* C16: neither the control nor the worker's registry holds more subscriptions
\* than max_active_subscriptions.
C16_ActiveWithinMaximum ==
    /\ total(control) <= config.max_active_subscriptions
    /\ Cardinality(DOMAIN subscriptions) <= config.max_active_subscriptions

\* A subscribe was refused with a maximum below what the model could give out.
C16_Witness ==
    /\ config.max_active_subscriptions = 1
    /\ ReplyIs("subscribe")
    /\ Unwrap(step.reply).result = "CapacityExceeded"
    /\ next_id < MaxSubscriptions
    /\ total(control) = 1

\* C17: a subscribe is refused with CapacityExceeded exactly when its params are
\* new and the control is at the maximum, and then control, ids and channel are
\* as it found them.
C17_RefusedAtMaximumOnly ==
    ReplyIs("subscribe") =>
        LET reply == Unwrap(step.reply)
        IN  /\ reply.result = "CapacityExceeded"
                <=> (/\ reply.params \notin DOMAIN reply.before
                     /\ total(reply.before) >= config.max_active_subscriptions)
            /\ reply.result = "CapacityExceeded" =>
                    /\ control = reply.before
                    /\ reply.params \notin DOMAIN control
                    /\ total(control) = config.max_active_subscriptions
            /\ reply.result = "Ok" => reply.params \in DOMAIN control

\* With two subscriptions held and a maximum of two, a subscribe for other params
\* was refused and nothing was enqueued.
C17_Witness ==
    /\ config.max_active_subscriptions = 2
    /\ ReplyIs("subscribe")
    /\ Unwrap(step.reply).result = "CapacityExceeded"
    /\ total(control) = 2
    /\ next_id = 2
    /\ queue = <<>>

(***************************************************************************)
(* Unsubscribing                                                           *)
(***************************************************************************)
\* The id was given out, no client holds it any more, and the worker has handled
\* every entry about it: it handled the Unsubscribed of its last holder.
LastHolderLeft(id) ==
    /\ id < next_id
    /\ ~ControlReports(id)
    /\ Settled(id)

\* C18: from the moment the worker has handled the Unsubscribed of the last holder
\* of a subscription, that stays so, the registry does not hold the subscription,
\* and no step sends a message with its id.
C18_NothingAfterLastUnsubscribe ==
    [][\A id \in SubscriptionIds :
        LastHolderLeft(id) =>
            /\ LastHolderLeft(id)'
            /\ id \notin DOMAIN subscriptions
            /\ id \notin DOMAIN subscriptions'
            /\ \A i \in 1..Len(step'.notifications) :
                    step'.notifications[i].subscription_id # id]_vars

\* A Bank entry notified a subscription while another, whose last holder had
\* unsubscribed, got nothing.
C18_Witness ==
    /\ StepIs("Bank")
    /\ step.notifications # <<>>
    /\ \E id \in released :
        /\ LastHolderLeft(id)
        /\ id \notin Notified(step.notifications)

(***************************************************************************)
(* The recent items                                                        *)
(***************************************************************************)
Min(a, b) == IF a <= b THEN a ELSE b

\* Every payload pushed so far had B bytes.
AllPushesOf(B) == \A i \in 1..Len(trace.handled) : trace.handled[i] = B

\* C20: after every push the recent items hold at most max_len payloads and at
\* most max_total_bytes bytes, they are the latest payloads pushed, and after
\* pushes of B bytes each they hold at most min(max_len, max_total_bytes / B).
C20_RecentItemsWithinCaps ==
    /\ Len(recent_items) <= config.queue_capacity_items
    /\ Sum(recent_items) <= config.queue_capacity_bytes
    /\ Len(recent_items) <= Len(trace.handled)
    /\ recent_items = SubSeq(trace.handled, Len(trace.handled) - Len(recent_items) + 1,
                             Len(trace.handled))
    /\ \A B \in 1..MaxItemLen :
            AllPushesOf(B) =>
                Len(recent_items) <= Min(config.queue_capacity_items,
                                         config.queue_capacity_bytes \div B)

\* More payloads of one size were pushed than the byte cap lets stay, with room
\* left under the count cap.
C20_Witness ==
    \E B \in 2..MaxItemLen :
        /\ AllPushesOf(B)
        /\ Len(trace.handled) > Len(recent_items)
        /\ Len(recent_items) = config.queue_capacity_bytes \div B
        /\ Len(recent_items) > 0
        /\ Len(recent_items) < config.queue_capacity_items

(***************************************************************************)
(* Subscription ids                                                        *)
(***************************************************************************)
\* The ids given out that no params hold any more.
Removed == {id \in 0..(next_id - 1) : ~ControlReports(id)}

\* C26: the ids held are distinct and were given out in order, new params get
\* an id above every id given out before, and an id that was removed is never
\* held again.
C26_IdsGrowAndAreNeverReused ==
    [][/\ \A p, q \in DOMAIN control' :
            /\ control'[p].id < next_id'
            /\ control'[p].id = control'[q].id => p = q
       /\ next_id' >= next_id
       /\ \A p \in DOMAIN control' :
            (p \notin DOMAIN control \/ control[p].id # control'[p].id)
                => /\ control'[p].id = next_id
                   /\ next_id' = next_id + 1
                   /\ \A q \in DOMAIN control : control[q].id < control'[p].id
       /\ \A id \in Removed : id \in Removed']_vars

\* After a subscribe, an unsubscribe and a subscribe the only params held have
\* id 1 and id 0 is removed.
C26_Witness ==
    /\ ReplyIs("subscribe")
    /\ Unwrap(step.reply).result = "Ok"
    /\ Unwrap(step.reply).before = <<>>
    /\ control[Unwrap(step.reply).params].id = 1
    /\ Removed = {0}
    /\ released = {0}

(***************************************************************************)
(* The slots an Account subscription is notified for                       *)
(***************************************************************************)
\* The modified slot the latest step's query returned for subscription id, 0 for
\* an account the bank does not hold.
ModifiedFound(id) == IF IsSome(AccountFound(id)) THEN Unwrap(AccountFound(id)).slot ELSE 0

\* C27: a step that notifies an Account subscription sends it one message, for a
\* modified slot other than the one it was last notified for, and remembers that
\* slot; every other step leaves the slot remembered. So two notifications in a
\* row are never for the same modified slot.
C27_ConsecutiveNotificationsDiffer ==
    [][\A id \in DOMAIN subscriptions \cap DOMAIN subscriptions' :
        subscriptions[id].params.kind = "Account" =>
            IF SentTo(id)' # <<>>
            THEN /\ Len(SentTo(id)') = 1
                 /\ ModifiedFound(id)' # subscriptions[id].last_notified_slot
                 /\ subscriptions'[id].last_notified_slot = ModifiedFound(id)'
            ELSE subscriptions'[id].last_notified_slot =
                    subscriptions[id].last_notified_slot]_vars

\* An Account subscription notified by two entries in a row, the second time for
\* a modified slot below the first.
C27_Witness ==
    /\ CommitmentStep
    /\ IsSome(step.run)
    /\ \E id \in AccountsEvaluated :
        /\ id \in Unwrap(step.run).notified
        /\ Len(SentTo(id)) = 1
        /\ step.before[id].last_notified_slot > 0
        /\ ModifiedFound(id) < step.before[id].last_notified_slot

(***************************************************************************)
(* Subscribing and unsubscribing ahead of an entry                         *)
(***************************************************************************)
EventStep == CommitmentStep \/ StepIs("SignaturesReceived") \/ NodeProgressStep

\* C28: an entry is handled against the registry of exactly the ids that were
\* held when it was enqueued: every subscription whose subscribe had returned is
\* in it, and none whose last unsubscribe had returned, so none of those is
\* notified.
C28_RegistryAsOfEnqueue ==
    EventStep =>
        /\ DOMAIN step.before = Unwrap(step.entry).held
        /\ Notified(step.notifications) \subseteq Unwrap(step.entry).held

\* An entry notified a subscription that was held but not yet registered when
\* the entry was enqueued.
C28_Witness ==
    /\ EventStep
    /\ \E id \in Notified(step.notifications) :
            id \notin Unwrap(step.entry).registered

(***************************************************************************)
(* What writes last_notified_slot                                          *)
(***************************************************************************)
\* C30: the last_notified_slot of a Program, Logs, Signature or singleton
\* subscription is 0 throughout, and a step that sends a subscription nothing,
\* whatever entry it handles, leaves its last_notified_slot as it was.
C30_LastNotifiedSlotWrittenOnNotify ==
    /\ \A id \in DOMAIN subscriptions :
            subscriptions[id].params.kind # "Account" =>
                subscriptions[id].last_notified_slot = 0
    /\ IsSome(step.entry) =>
            \A id \in DOMAIN step.before \cap DOMAIN subscriptions :
                SentTo(id) = <<>> =>
                    subscriptions[id].last_notified_slot = step.before[id].last_notified_slot

\* A node-progress or SignaturesReceived entry notified one subscription and left
\* an Account subscription, last notified above slot 0, as it was.
C30_Witness ==
    /\ NodeProgressStep \/ StepIs("SignaturesReceived")
    /\ step.notifications # <<>>
    /\ \E id \in DOMAIN step.before \cap DOMAIN subscriptions :
        /\ step.before[id].params.kind = "Account"
        /\ step.before[id].last_notified_slot > 0
        /\ SentTo(id) = <<>>
        /\ subscriptions[id].last_notified_slot = step.before[id].last_notified_slot

(***************************************************************************)
(* The slot an Account subscription starts from                            *)
(***************************************************************************)
\* The latest step registered a new Account subscription.
RegisteredAccount ==
    /\ StepIs("Subscribed")
    /\ IsSome(step.read)

\* The slot its commitment resolved to in the caches the step read.
SubscribedSlot ==
    LET read == Unwrap(step.read)
        commitment == Unwrap(step.entry).params.commitment
    IN  CASE commitment = "finalized" -> read.highest_confirmed_root
          [] commitment = "confirmed" -> read.optimistically_confirmed_slot
          [] commitment = "processed" -> read.slot

\* C29: a new Account subscription starts with the modified slot of its account
\* in the bank at the slot its commitment resolves to in the caches, and with 0
\* when bank_forks has no bank there or the bank has no such account; a later
\* Bank or Gossip entry that finds the account at the slot the subscription
\* holds sends it nothing.
C29_AccountStartsAtModifiedSlot ==
    /\ RegisteredAccount =>
            LET id == Unwrap(step.entry).id
                bank == bank_forks[SubscribedSlot]
                found == IF IsSome(bank)
                         THEN Unwrap(bank).accounts[Unwrap(step.entry).params.pubkey]
                         ELSE None
            IN  /\ id \notin DOMAIN step.before
                /\ id \in DOMAIN subscriptions
                /\ subscriptions[id].last_notified_slot =
                        IF IsSome(found) THEN Unwrap(found).slot ELSE 0
    /\ \A id \in AccountsEvaluated :
            ModifiedFound(id) = step.before[id].last_notified_slot => SentTo(id) = <<>>

\* A finalized Account subscription registered with the root below the processed
\* slot: it starts from the account as the bank at the root holds it, not as the
\* bank at the processed slot does.
C29_Witness ==
    /\ RegisteredAccount
    /\ Unwrap(step.entry).params.commitment = "finalized"
    /\ Unwrap(step.read).highest_confirmed_root < Unwrap(step.read).slot
    /\ IsSome(bank_forks[Unwrap(step.read).highest_confirmed_root])
    /\ IsSome(bank_forks[Unwrap(step.read).slot])
    /\ Matches(Unwrap(bank_forks[Unwrap(step.read).slot]), Unwrap(step.entry).params,
               subscriptions[Unwrap(step.entry).id].last_notified_slot) = 1
    /\ Matches(Unwrap(bank_forks[Unwrap(step.read).highest_confirmed_root]),
               Unwrap(step.entry).params,
               subscriptions[Unwrap(step.entry).id].last_notified_slot) = 0

(***************************************************************************)
(* Payloads and their weak handles.                                        *)
(***************************************************************************)
\* The latest step was a receiver's recv.
RecvStep == IsSome(step.reply) /\ Unwrap(step.reply).request = "recv"

\* A step of the worker: it took the head of the queue.
WorkerStep == queue # <<>> /\ queue' = Tail(queue) /\ IsSome(step'.entry)

\* Whether the handle of a message gives its payload with the recent items `items`.
Retrievable(message, items) == IsSome(upgrade(message.json, items))

\* How many of the messages of the step the receiver holds after it.
Kept(receiver) ==
    Min(Len(step'.notifications), Len(broadcast'[receiver]))

C22_NoReceiverStillRecords ==
    [][WorkerStep /\ Head(queue).type = "Bank" =>
        /\ DOMAIN broadcast = {} =>
            /\ worker' = "recv_timeout"
            /\ broadcast' = broadcast
            /\ recent_items' =
                    PushAll(recent_items, [i \in 1..Len(step'.notifications) |->
                                                JsonLen(step'.notifications[i].json)])
            /\ \A id \in AccountsEvaluated' :
                    SentTo(id)' # <<>> =>
                        /\ id \in DOMAIN subscriptions'
                        /\ subscriptions'[id].last_notified_slot = ModifiedFound(id)'
                        /\ subscriptions'[id].last_notified_slot # subscriptions[id].last_notified_slot
        /\ \A id \in AccountsEvaluated' :
                subscriptions[id].last_notified_slot = ModifiedFound(id)' => SentTo(id)' = <<>>
      ]_vars

\* The same Bank entry was handled twice in a row: first with no receiver, when it
\* notified an Account subscription, then with a receiver, when it sent nothing, so
\* the receiver has nothing to read though the payload is among the recent items.
C22_Witness ==
    /\ StepIs("Bank")
    /\ step.notifications = <<>>
    /\ IsSome(step.run)
    /\ Unwrap(step.run).entry = Unwrap(step.entry)
    /\ \E id \in AccountsEvaluated :
            /\ id \in Unwrap(step.run).unheard
            /\ subscriptions[id].last_notified_slot = ModifiedFound(id)
            /\ ModifiedFound(id) > 0
    /\ DOMAIN broadcast # {}
    /\ \A r \in DOMAIN broadcast : broadcast[r] = <<>>
    /\ recent_items # <<>>

(***************************************************************************)
(* The worker's exit.                                                      *)
(***************************************************************************)
\* The latest step was an enqueue_notification that logged the entry as dropped.
DroppedStep ==
    /\ IsSome(step.reply)
    /\ Unwrap(step.reply).request = "enqueue_notification"

\* C23: once the worker has exited it stays so, the queue takes no entry, and
\* nothing is registered, sent, pushed or marked final any more; a helper called
\* from then on logs that the entry was dropped and returns, leaving the queue as
\* it was, and no helper logs so while the worker runs.
C23_NothingAfterWorkerExit ==
    [][/\ worker = "exited" =>
            /\ worker' = "exited"
            /\ queue' = queue
            /\ subscriptions' = subscriptions
            /\ recent_items' = recent_items
            /\ broadcast' = broadcast
            /\ finals' = finals
            /\ pending_final' \subseteq pending_final
            /\ ~IsSome(step'.entry)
       /\ DroppedStep' /\ step' # step =>
            /\ worker = "exited"
            /\ Unwrap(step'.reply).before = queue'
            /\ \A i \in 1..Len(queue') : queue'[i] # Unwrap(step'.reply).params
      ]_vars

\* The worker exited and notify_subscribers was then called with a bank that holds
\* a change for an Account subscription: the entry was dropped.
C23_Witness ==
    /\ DroppedStep
    /\ worker = "exited"
    /\ Unwrap(step.reply).params.type = "Bank"
    /\ \E id \in DOMAIN subscriptions :
            /\ subscriptions[id].params.kind = "Account"
            /\ IsSome(bank_forks[Unwrap(step.reply).params.commitment_slots.slot])
            /\ LET bank == Unwrap(bank_forks[Unwrap(step.reply).params.commitment_slots.slot])
                   found == bank.accounts[subscriptions[id].params.pubkey]
               IN  /\ IsSome(found)
                   /\ Unwrap(found).slot # subscriptions[id].last_notified_slot

\* The worker takes an event that was sent before the exit flag was set, after
\* the flag was set.
DrainsBacklog ==
    /\ WorkerStep
    /\ exit
    /\ "exit" \in DOMAIN Head(queue)
    /\ ~Head(queue).exit

\* C25: no event that is in the queue when the exit flag is set is processed.
C25_NoBacklogIsDrained == [][~DrainsBacklog]_vars

\* C39: once the exit flag is set the worker takes at most one more entry off the
\* queue: a step that takes one with the flag set is the worker's last, and once
\* the worker has exited the queue is left as it is, so whatever else is queued is
\* never taken.
C39_AtMostOneEntryAfterExit ==
    [][/\ (WorkerStep /\ exit) => worker' = "exited"
       /\ worker = "exited" => (worker' = "exited" /\ queue' = queue)
      ]_vars

\* With the flag set the worker handled a Bank entry that was sent after the flag
\* was set, and exited with entries still queued.
C39_Witness ==
    /\ StepIs("Bank")
    /\ Unwrap(step.entry).exit
    /\ worker = "exited"
    /\ queue # <<>>

\* C24: once the exit flag is set the worker exits, and a shutdown that waits in
\* join returns, whatever the queue holds and whatever the producers go on to send.
C24_WorkerExitsAndJoinReturns ==
    /\ exit ~> worker = "exited"
    /\ t_cleanup.joining ~> (worker = "exited" /\ ~t_cleanup.joining)

\* shutdown returned from its join with entries left in the queue that were sent
\* before the flag was set.
C24_Witness ==
    /\ IsSome(step.reply)
    /\ Unwrap(step.reply).request = "shutdown"
    /\ Unwrap(step.reply).result = "Ok"
    /\ worker = "exited"
    /\ \E i \in 1..Len(queue) : ~queue[i].exit

(***************************************************************************)
(* The messages of a step.                                                 *)
(***************************************************************************)
\* Whether a message is the ProcessedSignature notification of a Signature
\* subscription.
IsProcessedSignature(message) ==
    /\ message.json.method = "signatureNotification"
    /\ message.json.params.result.value.tag = "ProcessedSignature"

\* C31: a message has is_final set if and only if it is the ProcessedSignature
\* notification of a Signature subscription; the messages of every other kind,
\* the ReceivedSignature notification included, have it unset.
C31_FinalIffProcessedSignature ==
    \A i \in 1..Len(step.notifications) :
        step.notifications[i].is_final <=> IsProcessedSignature(step.notifications[i])

\* A Bank step sent a Signature subscription its ProcessedSignature message and
\* another subscription a message of its own.
C31_Witness ==
    /\ StepIs("Bank")
    /\ \E i, j \in 1..Len(step.notifications) :
            /\ step.notifications[i].is_final
            /\ IsProcessedSignature(step.notifications[i])
            /\ ~step.notifications[j].is_final
            /\ step.notifications[j].json.method # "signatureNotification"

(***************************************************************************)
(* The entries of notify_roots.                                            *)
(***************************************************************************)
\* The slot an entry of the roots producer is for.
RootSlotOf(entry) ==
    IF entry.type = "Root" THEN entry.root ELSE entry.slot_update.slot

\* The SlotUpdate entries the worker handled.
SlotUpdatesHandled == SelectSeq(trace.handled, LAMBDA h : h.entry.type = "SlotUpdate")

\* C32: what each call of notify_roots has enqueued is, slot by slot in ascending
\* order, a Root SlotUpdate and then the Root event of the same slot, and a call
\* that has ended has enqueued such a pair for each slot it was given; the worker
\* handles the entries in that order, so the Root SlotUpdate of a slot is handled
\* before the Root event of the slot and after that of the slot before; and the
\* Root entries of a call that are sent to the SlotsUpdates subscription ascend as
\* its root notifications do.
C32_RootUpdateThenRootAscending ==
    LET sent == SentBy("roots")
        call == [i \in 1..Len(sent) |-> trace.sent["roots"][i].call]
        handled == [i \in 1..Len(trace.handled) |-> trace.handled[i].entry]
    IN  /\ \A i \in 1..Len(sent) :
                IF i % 2 = 1
                THEN /\ sent[i].type = "SlotUpdate"
                     /\ sent[i].slot_update.tag = "root"
                     /\ (i > 2 /\ call[i - 2] = call[i]) =>
                            sent[i - 2].slot_update.slot <= sent[i].slot_update.slot
                ELSE /\ sent[i].type = "Root"
                     /\ sent[i].root = sent[i - 1].slot_update.slot
                     /\ call[i] = call[i - 1]
        /\ \A c \in 1..Len(trace.begun["roots"]) :
                (c < Len(trace.begun["roots"]) \/ calls["roots"] = <<>>) =>
                    LET given == trace.begun["roots"][c]
                    IN  /\ Cardinality({i \in 1..Len(sent) : call[i] = c}) = 2 * Len(given)
                        /\ \A s \in Slots :
                                Cardinality({i \in 1..Len(given) : given[i] = s}) =
                                Cardinality({i \in 1..Len(sent) :
                                                /\ call[i] = c
                                                /\ sent[i].type = "Root"
                                                /\ sent[i].root = s})
        /\ Len(handled) <= Len(sent)
        /\ \A i \in 1..Len(handled) : handled[i] = sent[i]
        /\ \A i, j \in 1..Len(SlotUpdatesHandled) :
                (/\ i < j
                 /\ call[2 * i - 1] = call[2 * j - 1]
                 /\ SlotUpdatesHandled[i].notifications # <<>>
                 /\ SlotUpdatesHandled[j].notifications # <<>>)
                => /\ SlotUpdatesHandled[i].notifications[1].json.method =
                            "slotsUpdatesNotification"
                   /\ Payload(SlotUpdatesHandled[i]).tag = "root"
                   /\ Payload(SlotUpdatesHandled[i]).slot <= Payload(SlotUpdatesHandled[j]).slot
        /\ \A i, j \in 1..Len(RootsHandled) :
                (/\ i < j
                 /\ call[2 * i] = call[2 * j]
                 /\ RootsHandled[i].notifications # <<>>
                 /\ RootsHandled[j].notifications # <<>>)
                => Payload(RootsHandled[i]) <= Payload(RootsHandled[j])

\* notify_roots was given slot 1 before slot 0, and both subscriptions were sent
\* slot 0 and then slot 1, each Root SlotUpdate before the root of its slot.
C32_Witness ==
    /\ trace.begun["roots"] = << <<1, 0>> >>
    /\ Len(trace.handled) = 4
    /\ \A i \in 1..4 : trace.handled[i].notifications # <<>>
    /\ Payload(trace.handled[1]).slot = 0
    /\ Payload(trace.handled[2]) = 0
    /\ Payload(trace.handled[3]).slot = 1
    /\ Payload(trace.handled[4]) = 1

(***************************************************************************)
(* The recent items as a suffix of the pushes.                             *)
(***************************************************************************)
\* Whether the latest k payloads pushed are within both caps.
WithinCaps(k) ==
    /\ k <= config.queue_capacity_items
    /\ Sum(Last(trace.handled, k)) <= config.queue_capacity_bytes

\* C33: the recent items are the longest suffix of the payloads pushed so far that
\* is within both caps, in the order pushed: the latest k payloads for the
\* greatest k that max_len and max_total_bytes allow.
C33_LongestSuffixWithinCaps ==
    \E k \in 0..Len(trace.handled) :
        /\ WithinCaps(k)
        /\ \A j \in (k + 1)..Len(trace.handled) : ~WithinCaps(j)
        /\ recent_items = Last(trace.handled, k)

\* A push evicted one payload of two for the byte cap, with room left under the
\* count cap, and left the other.
C33_Witness ==
    /\ Len(trace.handled) = 3
    /\ Len(recent_items) = 2
    /\ config.queue_capacity_items = MaxLen
    /\ Sum(trace.handled) > config.queue_capacity_bytes
    /\ Sum(recent_items) <= config.queue_capacity_bytes
    /\ recent_items = Tail(trace.handled)

\* C37: the counter of the recent items is the sum of the lengths of the payloads
\* queued and no push panics, whatever the caps, 0 included.
C37_TotalBytesIsTheSum ==
    /\ recent_items.total_bytes = Sum(recent_items.queue)
    /\ recent_items.panic = None

\* With max_len = 0 and room for bytes, two pushes each left the queue empty and
\* the counter at 0.
C37_Witness ==
    /\ recent_items.max_len = 0
    /\ recent_items.max_total_bytes > 0
    /\ Len(trace.handled) = 2
    /\ recent_items.queue = <<>>
    /\ recent_items.total_bytes = 0
    /\ recent_items.panic = None

(***************************************************************************)
(* Program subscriptions.                                                  *)
(***************************************************************************)
\* Whether account data satisfies one filter.
Satisfies(filter, data) ==
    \/ /\ filter.tag = "DataSize"
       /\ Len(data) = filter.size
    \/ /\ filter.tag = "Memcmp"
       /\ filter.offset + Len(filter.bytes) <= Len(data)
       /\ SubSeq(data, filter.offset + 1, filter.offset + Len(filter.bytes)) = filter.bytes

\* The program subscriptions the latest step evaluated against an existing bank.
ProgramsEvaluated ==
    {id \in DOMAIN step.before :
        /\ Evaluated(id)
        /\ step.before[id].params.kind = "Program"
        /\ IsSome(ResolvedBank(id))}

\* The accounts of the subscription's program the resolved bank reports modified.
ModifiedAccounts(id) ==
    Unwrap(ResolvedBank(id)).program_accounts[step.before[id].params.pubkey]

\* Those of them that satisfy every filter of the subscription.
Passing(id) ==
    SelectSeq(ModifiedAccounts(id),
              LAMBDA keyed : \A filter \in Range(step.before[id].params.filters) :
                                Satisfies(filter, keyed.account.data))

\* C34: a commitment event sends a Program subscription exactly one
\* programNotification for each modified account of the program that satisfies
\* every filter of the subscription, in the order the bank reports them, and none
\* for an account that fails a filter; an empty filter list keeps every account.
C34_OneProgramNotificationPerPassingAccount ==
    \A id \in ProgramsEvaluated :
        /\ Len(SentTo(id)) = Len(Passing(id))
        /\ \A i \in 1..Len(SentTo(id)) :
            /\ SentTo(id)[i].json.method = "programNotification"
            /\ SentTo(id)[i].json.params.result.value.pubkey = Passing(id)[i].pubkey

\* A step sends for some of the modified accounts and leaves others out.
C34_Witness ==
    \E id \in ProgramsEvaluated :
        /\ Len(SentTo(id)) > 0
        /\ Len(SentTo(id)) < Len(ModifiedAccounts(id))
        /\ Len(step.before[id].params.filters) = 2

(***************************************************************************)
(* Logs subscriptions.                                                     *)
(***************************************************************************)
\* The logs subscriptions the latest step evaluated against an existing bank.
LogsEvaluated ==
    {id \in DOMAIN step.before :
        /\ Evaluated(id)
        /\ step.before[id].params.kind = "Logs"
        /\ IsSome(ResolvedBank(id))}

\* What the resolved bank returns for the subscription's address, if it has logs.
LogsReturned(id) ==
    LET logs_kind == step.before[id].params.logs_kind
    IN  bank_get_transaction_logs(Unwrap(ResolvedBank(id)),
                                  IF logs_kind.tag = "Single" THEN Some(logs_kind.pubkey)
                                  ELSE None)

\* The entries the subscription is to hear of.
LogsDue(id) ==
    IF ~IsSome(LogsReturned(id)) THEN <<>>
    ELSE IF step.before[id].params.logs_kind.tag = "All"
    THEN SelectSeq(Unwrap(LogsReturned(id)), LAMBDA log : ~log.is_vote)
    ELSE Unwrap(LogsReturned(id))

\* C35: a commitment event sends a Logs subscription one logsNotification for each
\* log entry the resolved bank returns, in the order returned; a subscription of
\* kind All is sent none of the vote-transaction entries, one of kind AllWithVotes
\* is sent every entry, and a bank without a log result sends nothing.
C35_OneLogsNotificationPerEntry ==
    \A id \in LogsEvaluated :
        /\ Len(SentTo(id)) = Len(LogsDue(id))
        /\ \A i \in 1..Len(SentTo(id)) :
            /\ SentTo(id)[i].json.method = "logsNotification"
            /\ SentTo(id)[i].json.params.result.value.signature = LogsDue(id)[i].signature
            /\ SentTo(id)[i].json.params.result.value.logs = LogsDue(id)[i].log_messages

\* In one step a subscription of kind All is sent fewer entries than the bank
\* returned and one of kind AllWithVotes all three.
C35_Witness ==
    \E id, other \in LogsEvaluated :
        /\ step.before[id].params.logs_kind.tag = "All"
        /\ Len(SentTo(id)) = 1
        /\ Len(Unwrap(LogsReturned(id))) = 3
        /\ step.before[other].params.logs_kind.tag = "AllWithVotes"
        /\ Len(SentTo(other)) = 3

(***************************************************************************)
(* The indices of the registry.                                            *)
(***************************************************************************)
\* The subscriptions the SignaturesReceived arm may visit.
WalkedBySignature == UNION {by_signature(subscriptions, s) : s \in Signatures}

NothingFitsLeavesEmpty ==
    (/\ trace.handled # <<>>
     /\ \/ recent_items.max_len = 0
        \/ trace.handled[Len(trace.handled)] > recent_items.max_total_bytes)
        => recent_items.queue = <<>>

\* The worker's step published a message, the last of them with a payload longer
\* than max_total_bytes.
PublishesOversized ==
    /\ WorkerStep
    /\ step'.notifications # <<>>
    /\ JsonLen(step'.notifications[Len(step'.notifications)].json)
            > config.queue_capacity_bytes

C40_NothingAtSlotZero ==
    [][\A id \in DOMAIN subscriptions \cap DOMAIN subscriptions' :
        (/\ subscriptions[id].params.kind = "Account"
         /\ subscriptions[id].last_notified_slot = 0)
        => IF SentTo(id)' # <<>>
           THEN /\ id \in AccountsEvaluated'
                /\ IsSome(AccountFound(id)')
                /\ ModifiedFound(id)' # 0
           ELSE subscriptions'[id].last_notified_slot = 0]_vars

\* One step evaluated two subscriptions that held 0, one against a bank that lacks
\* the account and one against a bank that holds it modified at slot 0, and sent
\* neither anything.
C40_Witness ==
    \E id, other \in AccountsEvaluated :
        /\ step.before[id].last_notified_slot = 0
        /\ ~IsSome(AccountFound(id))
        /\ step.before[other].last_notified_slot = 0
        /\ IsSome(AccountFound(other))
        /\ ModifiedFound(other) = 0
        /\ SentTo(id) = <<>>
        /\ SentTo(other) = <<>>
====
